---- MODULE Spec2Model ----
(***************************************************************************)
(* The reveal engine of src/js/triangulate.js (class TriangulationEngine): *)
(* a toroidal Game of Life grid, the minimum-cell floor, and the timed     *)
(* director runFromClick / update / animate / fadeOut / stop driven by     *)
(* requestAnimationFrame callbacks and the 500 ms hold timer.              *)
(*                                                                         *)
(* The looping variant (class HeroLogoAnimation) with its correspondence   *)
(* matcher, and the triangulation both classes hand to the library.        *)
(*                                                                         *)
(* The specifications share the variables:                                 *)
(*   Spec        the director, on the 12 x 12 grid of the engine;          *)
(*   FairSpec    Spec with the browser delivering every callback;          *)
(*   SpecHero    the hero: runSimulation, the draw loop and its timers;    *)
(*   SpecPage    a page that holds the engine or the hero;                 *)
(*   SpecGrid    updateGrid on every small grid;                           *)
(*   SpecEnsure  ensureMinimumCells on every small grid;                   *)
(*   SpecGlider  updateGrid on an 8 x 8 grid seeded with a 5-cell pattern; *)
(*   SpecTri     triangulate and getEdgesFromPoints on every small list;   *)
(*   SpecMatch   matchPoints on every two small lists of points;           *)
(*   SpecSeed    initializeFromPoint from every cell of the grid;          *)
(*   FairSpecHero  SpecHero with the browser delivering every callback;    *)
(*   SpecResize  SpecPage with the window resized at any time;             *)
(*   SpecBuffer  updateGrid cell by cell on the two allocated arrays;      *)
(*   SpecReveal  one run with triangles at any distances from the centre;  *)
(*   SpecEdges   getEdgesFromPoints on any list of one or two triangles;   *)
(*   SpecApp     CodefarmApp's navigation requests on top of the engine;   *)
(*   SpecRestart the engine with callbacks that call runFromClick at once. *)
(***************************************************************************)
EXTENDS Integers, Sequences, FiniteSets, TLC

VARIABLES
    gridSize,          \* this.gridSize
    grid,              \* this.grid: grid[i][j] in {0, 1}, i the column, j the row
    nextGrid,          \* this.nextGrid
    livingCells,       \* this.livingCells: the collected points, as <<gridX, gridY>>
    currentFrame,      \* this.currentFrame
    isRunning,         \* this.isRunning
    isTriangulating,   \* this.isTriangulating
    triangles,         \* this.triangles: records [distFromCenter, delay, progress]
    onComplete,        \* this.onComplete: 0 is null, r > 0 the callback given to run r
    sinceSimStart,     \* performance.now() - this.simulationStartTime, in ms
    sinceTriStart,     \* performance.now() - this.triangulationStartTime, in ms
    rafQueue,          \* the callbacks given to requestAnimationFrame, oldest first
    timers,            \* the pending setTimeout(..., 500) hold timers, oldest first
    canvas,            \* what the canvas shows: "clear", "cells" or "mesh"
    run,               \* the number of runFromClick calls so far (the current run)
    called,            \* called[r]: how often the callback of run r was invoked
    lastCall,          \* the engine as the most recently invoked callback saw it
    hist,              \* what has happened to the current run so far
    ended,             \* the runs that have been ended (isRunning set to false)
    seedInfo,          \* SpecGlider: the pattern the grid was seeded with, and where
    delivered,         \* the callback the browser ran last, the parity of their number
    hero,              \* the fields of a HeroLogoAnimation (SpecPage)
    view,              \* the canvas size and the cell-to-pixel scale
    mem,               \* SpecBuffer: which arrays grid and nextGrid refer to, and
                       \* where updateGrid's loops are
    app,               \* the page's CodefarmApp: its navigation lock (SpecApp), and
                       \* whether the completion callbacks restart (SpecRestart)
    obs                \* what the last step did (its operation and its effects)

vars == <<gridSize, grid, nextGrid, livingCells, currentFrame, isRunning,
          isTriangulating, triangles, onComplete, sinceSimStart, sinceTriStart,
          rafQueue, timers, canvas, run, called, lastCall, hist, ended, seedInfo,
          delivered, hero, view, mem, app, obs>>

(***************************************************************************)
(* Program constants (the constructor, src/js/triangulate.js:14-17) and    *)
(* the bounds of the model.                                                *)
(***************************************************************************)
EngineGridSize == 12
maxFrames == 12
minCells == 10
frameDelay == 40
MinimumBeforeTriangulation == 15
RevealDuration == 800
MaxDelay == 500
HoldDelay == 500
FadeDuration == 600

\* The clock advances in steps of TickMs milliseconds.
TickMs == 200
\* At most MaxRuns calls of runFromClick.
MaxRuns == 2
\* SpecGrid and SpecEnsure start from every grid of this size.
LifeN == 3
\* SpecEnsure calls ensureMinimumCells(k) for k in 0..EnsureMax and k around N*N.
EnsureMax == 4
\* SpecGrid calls updateGrid() at most GridSteps times in a row.
GridSteps == 2
\* SpecReveal: the library returns up to this many triangles.
MaxTriangles == 3
\* SpecGlider's grid size ("sufficiently large").
GliderN == 8
\* Up to this many dead cells every outcome of the shuffle is explored.
ShuffleAll == 16

Min(a, b) == IF a < b THEN a ELSE b
Max(a, b) == IF a > b THEN a ELSE b

(***************************************************************************)
(* Grid Simulator                                                          *)
(***************************************************************************)

\* create2DArray(size): size x size zeros.
create2DArray(size) == [i \in 0..(size - 1) |-> [j \in 0..(size - 1) |-> 0]]

\* The value of this.grid before the first runFromClick (null).
NullGrid == [i \in {} |-> 0]

\* this.grid and this.nextGrid after the constructor: both null (0), and
\* updateGrid not running.
NoMem == [grid |-> 0, nextGrid |-> 0, pc |-> "idle", i |-> 0, j |-> 0,
          before |-> NullGrid]

\* A cell of g, dead when (col, row) lies outside the grid.
CellOrDead(g, n, col, row) ==
    IF col \in 0..(n - 1) /\ row \in 0..(n - 1) THEN g[col][row] ELSE 0

\* A neighbour count that does not wrap: cells outside the grid count as dead.
CountNeighborsNoWrap(g, n, x, y) ==
      CellOrDead(g, n, x - 1, y - 1) + CellOrDead(g, n, x - 1, y)
    + CellOrDead(g, n, x - 1, y + 1) + CellOrDead(g, n, x, y - 1)
    + CellOrDead(g, n, x, y + 1)     + CellOrDead(g, n, x + 1, y - 1)
    + CellOrDead(g, n, x + 1, y)     + CellOrDead(g, n, x + 1, y + 1)

\* countNeighbors(x, y) on grid g of size n: the loops over i, j in -1..1 with
\* (0, 0) skipped, unrolled; col = (x + i + n) % n and row = (y + j + n) % n.
CountNeighbors(g, n, x, y) ==
    LET colL == (x - 1 + n) % n
        colM == (x + 0 + n) % n
        colR == (x + 1 + n) % n
        rowU == (y - 1 + n) % n
        rowM == (y + 0 + n) % n
        rowD == (y + 1 + n) % n
    IN   g[colL][rowU] + g[colL][rowM] + g[colL][rowD]
       + g[colM][rowU]                 + g[colM][rowD]
       + g[colR][rowU] + g[colR][rowM] + g[colR][rowD]

\* The cell written to nextGrid[i][j] by the body of updateGrid's loops.
NextCell(g, n, i, j) ==
    LET neighbors == CountNeighbors(g, n, i, j)
        currentState == g[i][j]
    IN IF currentState = 1
       THEN (IF neighbors < 2 \/ neighbors > 3 THEN 0 ELSE 1)
       ELSE (IF neighbors = 3 THEN 1 ELSE 0)

\* updateGrid's loops from column i on: every cell of column i is computed from
\* g (the inner loop over j) and written to ng.
RECURSIVE UpdateLoop(_, _, _, _)
UpdateLoop(g, ng, n, i) ==
    IF i >= n THEN ng
    ELSE UpdateLoop(g,
                    [ng EXCEPT ![i] = [j \in 0..(n - 1) |-> NextCell(g, n, i, j)]],
                    n, i + 1)

\* updateGrid written in place: column i is written to the grid being read.
RECURSIVE UpdateLoopInPlace(_, _, _)
UpdateLoopInPlace(g, n, i) ==
    IF i >= n THEN g
    ELSE UpdateLoopInPlace([g EXCEPT ![i] = [j \in 0..(n - 1) |-> NextCell(g, n, i, j)]],
                           n, i + 1)

UpdateGridInPlace(g, ng, n) ==
    [grid |-> UpdateLoopInPlace(g, n, 0), nextGrid |-> ng]

\* updateGrid(): fill nextGrid from grid, then swap the two references.
UpdateGrid(g, ng, n) ==
    [grid |-> UpdateLoop(g, ng, n, 0), nextGrid |-> g]

\* The inner loop of countLivingCells for column i, from row j on.
RECURSIVE CountColumn(_, _, _, _)
CountColumn(g, n, i, j) ==
    IF j >= n THEN 0
    ELSE (IF g[i][j] = 1 THEN 1 ELSE 0) + CountColumn(g, n, i, j + 1)

RECURSIVE CountFrom(_, _, _)
CountFrom(g, n, i) ==
    IF i >= n THEN 0 ELSE CountColumn(g, n, i, 0) + CountFrom(g, n, i + 1)

\* countLivingCells().
CountLivingCells(g, n) == CountFrom(g, n, 0)

\* The cells of column i with state v from row j on, as <<i, j>>, in loop order.
RECURSIVE ColumnCells(_, _, _, _, _)
ColumnCells(g, n, v, i, j) ==
    IF j >= n THEN <<>>
    ELSE (IF g[i][j] = v THEN << <<i, j>> >> ELSE <<>>) \o ColumnCells(g, n, v, i, j + 1)

RECURSIVE CellsFrom(_, _, _, _)
CellsFrom(g, n, v, i) ==
    IF i >= n THEN <<>>
    ELSE ColumnCells(g, n, v, i, 0) \o CellsFrom(g, n, v, i + 1)

\* The dead cells, in the order ensureMinimumCells pushes them to emptyCells.
EmptyCells(g, n) == CellsFrom(g, n, 0, 0)

\* The k-element subsets of S.
RECURSIVE KSubsets(_, _)
KSubsets(S, k) ==
    IF k = 0 THEN {{}}
    ELSE IF Cardinality(S) < k THEN {}
    ELSE LET x == CHOOSE y \in S : TRUE
         IN {T \cup {x} : T \in KSubsets(S \ {x}, k - 1)} \cup KSubsets(S \ {x}, k)

\* The Fisher-Yates shuffle of emptyCells followed by taking its first k entries:
\* every k-subset of the dead cells can come first.  Beyond ShuffleAll dead cells
\* the model explores one outcome, the last k dead cells in scan order.
ShuffledFirst(emptyCells, k) ==
    LET len == Len(emptyCells)
        all == {emptyCells[p] : p \in 1..len}
    IN IF len <= ShuffleAll THEN KSubsets(all, k)
       ELSE { {emptyCells[p] : p \in (len - k + 1)..len} }

\* this.grid[i][j] = 1 for the cells of S.
SetAlive(g, n, S) ==
    [i \in 0..(n - 1) |-> [j \in 0..(n - 1) |->
        IF <<i, j>> \in S THEN 1 ELSE g[i][j]]]

\* ensureMinimumCells that fills `minimum` cells instead of the missing ones.
EnsureMinimumCellsNoSubtract(g, n, minimum) ==
    LET current == CountLivingCells(g, n)
        emptyCells == EmptyCells(g, n)
    IN IF current >= minimum THEN {g}
       ELSE {SetAlive(g, n, S) :
                 S \in ShuffledFirst(emptyCells, Min(minimum, Len(emptyCells)))}

\* ensureMinimumCells that writes the added cells to a fresh grid of zeros.
EnsureMinimumCellsOnFreshGrid(g, n, minimum) ==
    LET emptyCells == EmptyCells(g, n)
    IN {SetAlive(create2DArray(n), n, S) :
            S \in ShuffledFirst(emptyCells, Min(minimum, Len(emptyCells)))}

\* ensureMinimumCells(minimum): the grids it can leave, one per shuffle outcome.
EnsureMinimumCells(g, n, minimum) ==
    LET current == CountLivingCells(g, n)
        emptyCells == EmptyCells(g, n)
        needed == minimum - current
    IN IF current >= minimum THEN {g}
       ELSE {SetAlive(g, n, S) :
                 S \in ShuffledFirst(emptyCells, Min(needed, Len(emptyCells)))}

\* collectLivingCells(): the living cells in scan order (the pixel position of a
\* point is (gridX + 1/2) * cellWidth, (gridY + 1/2) * cellHeight).
CollectLivingCells(g, n) == CellsFrom(g, n, 1, 0)

(***************************************************************************)
(* The engine as one record, so that a handler is a function from the      *)
(* engine before it to the engines it can leave (one per random outcome).  *)
(***************************************************************************)
Eng ==
    [gridSize |-> gridSize, grid |-> grid, nextGrid |-> nextGrid,
     livingCells |-> livingCells, currentFrame |-> currentFrame,
     isRunning |-> isRunning, isTriangulating |-> isTriangulating,
     triangles |-> triangles, onComplete |-> onComplete,
     sinceSimStart |-> sinceSimStart, sinceTriStart |-> sinceTriStart,
     rafQueue |-> rafQueue, timers |-> timers, canvas |-> canvas,
     run |-> run, called |-> called, lastCall |-> lastCall,
     hist |-> hist, ended |-> ended, seedInfo |-> seedInfo, hero |-> hero,
     view |-> view, app |-> app,
     obs |-> obs]

Commit(e) ==
    /\ gridSize' = e.gridSize
    /\ grid' = e.grid
    /\ nextGrid' = e.nextGrid
    /\ livingCells' = e.livingCells
    /\ currentFrame' = e.currentFrame
    /\ isRunning' = e.isRunning
    /\ isTriangulating' = e.isTriangulating
    /\ triangles' = e.triangles
    /\ onComplete' = e.onComplete
    /\ sinceSimStart' = e.sinceSimStart
    /\ sinceTriStart' = e.sinceTriStart
    /\ rafQueue' = e.rafQueue
    /\ timers' = e.timers
    /\ canvas' = e.canvas
    /\ run' = e.run
    /\ called' = e.called
    /\ lastCall' = e.lastCall
    /\ hist' = e.hist
    /\ ended' = e.ended
    /\ seedInfo' = e.seedInfo
    /\ hero' = e.hero
    /\ view' = e.view
    /\ app' = e.app
    /\ UNCHANGED mem
    /\ obs' = e.obs

\* What a step is recorded to have done: nothing yet.
NoObs(op, by) ==
    [op |-> op, by |-> by, drew |-> FALSE, stepped |-> 0, triangulated |-> 0,
     scheduled |-> 0, invoked |-> 0, seeded |-> 0, k |-> 0, before |-> 0,
     delaunator |-> 0, collected |-> 0]

\* The record of a run that has just been started: its generation steps, its
\* triangulations, whether a step followed a triangulation, the hold timers set,
\* the run's own hold timers that fired, the fade-outs begun, whether the run
\* finished naturally and by a fade closure of which run, whether a frame
\* callback or timer has fired since runFromClick, whether stop() was called
\* before any had, whether a step has left the live count at or below minCells
\* and whether a step was executed after such a step.
NoHist ==
    [steps |-> 0, tri |-> 0, stepAfterTri |-> FALSE, hold |-> 0, holdFired |-> 0,
     fade |-> 0, natural |-> FALSE, naturalBorn |-> 0, fired |-> FALSE,
     stoppedAtOnce |-> FALSE, low |-> FALSE, stepAfterLow |-> FALSE]

\* No HeroLogoAnimation has been constructed.
NoHero == [constructed |-> FALSE]

\* The sizes the window (the hero's container) is resized to: width and height in px.
WindowSizes == {<<480, 360>>}

\* The size of the window when the page is loaded.
InitialWindow == <<240, 120>>

\* this.canvas.width / this.gridSize, kept as the fraction it is.
Scale(size, n) == [num |-> size, den |-> n]

\* NaN, as the fraction with a denominator that no number has.
NaN == [num |-> 0, den |-> 0]

\* What the engine's constructor leaves: it calls resize() before it sets
\* gridSize, so both scales are a number divided by undefined, which is NaN.
EngineView ==
    [width |-> InitialWindow[1], height |-> InitialWindow[2],
     cellWidth |-> NaN, cellHeight |-> NaN]

\* resize() that also drops the triangles built for the old size.
ResizeDroppingTriangles(e, w, h) ==
    [e EXCEPT !.view = [width |-> w, height |-> h,
                        cellWidth |-> Scale(w, e.gridSize),
                        cellHeight |-> Scale(h, e.gridSize)],
              !.triangles = <<>>,
              !.canvas = "clear"]

\* resize() of the engine, the window being w by h: setting the size of the
\* canvas clears it.
Resize(e, w, h) ==
    [e EXCEPT !.view = [width |-> w, height |-> h,
                        cellWidth |-> Scale(w, e.gridSize),
                        cellHeight |-> Scale(h, e.gridSize)],
              !.canvas = "clear"]

NoSeedInfo == [pattern |-> "none", dx |-> 0, dy |-> 0]

NoCall ==
    [cb |-> 0, via |-> "none", isRunning |-> FALSE, onComplete |-> 0,
     canvas |-> "clear", run |-> 0, seeded |-> 0, drew |-> FALSE]

\* A callback given to requestAnimationFrame: the function, the run whose chain
\* of callbacks it belongs to, the run during which its closure was created and,
\* for fade, performance.now() - startTime.
Task(fn, by, born, age) == [fn |-> fn, by |-> by, born |-> born, age |-> age]

\* requestAnimationFrame(callback).
RequestAnimationFrame(e, task) ==
    [e EXCEPT !.rafQueue = Append(@, task), !.obs.scheduled = @ + 1]

\* The page's own state as the constructor of CodefarmApp leaves it: no
\* navigation under way.  restarts: whether the callbacks the page gives to
\* runFromClick call runFromClick themselves (they do not in CodefarmApp);
\* restarted: the callbacks that have done so; restartStops: how often such a
\* call found the engine running and called stop().
NoApp == [isNavigating |-> FALSE, restarts |-> FALSE,
          restarted |-> {}, restartStops |-> 0]

\* The grid a callback's runFromClick is seeded with: sixteen blocks.
RestartSeed ==
    [i \in 0..(EngineGridSize - 1) |-> [j \in 0..(EngineGridSize - 1) |->
        IF i % 3 < 2 /\ j % 3 < 2 THEN 1 ELSE 0]]

\* runFromClick is defined with the director, below.
RECURSIVE RunFromClick(_, _)

\* Invoking the completion callback cb: the caller's function runs and sees the
\* engine as it is at this point of the handler (seeded and drew: whether the
\* handler has already seeded a grid or drawn a frame).
\* The callback CodefarmApp registers resets isNavigating; a restarting
\* callback calls runFromClick before it returns (at time 0 of the new run its
\* update() advances nothing, so the call has one outcome).
Invoke(e, cb, via) ==
    LET e1 == [e EXCEPT !.called[cb] = @ + 1,
                        !.obs.invoked = @ + 1,
                        !.lastCall = [cb |-> cb, via |-> via, isRunning |-> e.isRunning,
                                      onComplete |-> e.onComplete, canvas |-> e.canvas,
                                      run |-> e.run, seeded |-> e.obs.seeded,
                                      drew |-> e.obs.drew],
                        !.app.isNavigating = FALSE]
    IN IF e1.app.restarts /\ e1.run < MaxRuns
       THEN CHOOSE x \in RunFromClick(
                            [e1 EXCEPT !.app.restarted = @ \cup {cb},
                                       !.app.restartStops =
                                           IF e1.isRunning THEN @ + 1 ELSE @],
                            RestartSeed) : TRUE
       ELSE e1

(***************************************************************************)
(* Seeding                                                                 *)
(***************************************************************************)

\* The n x n grid whose living cells are those of S.
GridOf(n, S) ==
    [i \in 0..(n - 1) |-> [j \in 0..(n - 1) |-> IF <<i, j>> \in S THEN 1 ELSE 0]]

\* A 2 x 2 block with its top left cell at (x, y).
Block(x, y) == {<<x, y>>, <<x + 1, y>>, <<x, y + 1>>, <<x + 1, y + 1>>}

\* A diagonal of three cells from (x, y): it is gone after two generations.
Diagonal(x, y) == {<<x, y>>, <<x + 1, y + 1>>, <<x + 2, y + 2>>}

\* Outcomes of the random fill of initializeFromPoint that the model explores:
\* no cell at all; three blocks (12 cells, stable, above minCells and below the
\* floor of 15); sixteen blocks (64 cells, stable); two blocks and three
\* diagonals (17 cells, then 12, then 9: the early stop of the second generation).
SeedCells ==
    { {},
      Block(0, 0) \cup Block(3, 0) \cup Block(6, 0),
      UNION {Block(3 * a, 3 * b) : a \in 0..3, b \in 0..3},
      Block(0, 0) \cup Block(0, 8) \cup Diagonal(4, 0) \cup Diagonal(8, 0)
          \cup Diagonal(5, 6) }

SeedGrids == {GridOf(EngineGridSize, S) : S \in SeedCells}

\* initializeFromPoint that allocates the grid only.
InitializeFromPointWithoutNextGrid(e, seed) ==
    [e EXCEPT !.grid = seed,
              !.obs.seeded = @ + 1,
              !.livingCells = <<>>,
              !.currentFrame = 0,
              !.triangles = <<>>]

\* initializeFromPoint(x, y): both grids are allocated anew, the grid is filled
\* at random (seed is the outcome of the fill) and the run's lists are reset.
InitializeFromPoint(e, seed) ==
    [e EXCEPT !.grid = seed,
              !.nextGrid = create2DArray(e.gridSize),
              !.obs.seeded = @ + 1,
              !.livingCells = <<>>,
              !.currentFrame = 0,
              !.triangles = <<>>]

(***************************************************************************)
(* Triangulation and drawing                                               *)
(***************************************************************************)

\* Delaunator.from(points) is a library outside src/.  Its result enters the
\* model as the list of the distances of its triangles' centroids from the
\* canvas centre (in px, in the library's order): no triangle (collinear or
\* undefined coordinates), or three triangles, two of them at the same distance.
DelaunayOutputs == { <<>>, <<200, 50, 200>> }

\* Array.prototype.sort((a, b) => a.distFromCenter - b.distFromCenter): stable.
RECURSIVE InsertByDist(_, _)
InsertByDist(sorted, d) ==
    IF sorted = <<>> THEN <<d>>
    ELSE IF d < Head(sorted) THEN <<d>> \o sorted
    ELSE <<Head(sorted)>> \o InsertByDist(Tail(sorted), d)

RECURSIVE SortByDist(_)
SortByDist(ds) ==
    IF ds = <<>> THEN <<>>
    ELSE InsertByDist(SortByDist(SubSeq(ds, 1, Len(ds) - 1)), ds[Len(ds)])

RECURSIVE MaxOf(_)
MaxOf(ds) == IF Len(ds) = 1 THEN ds[1] ELSE Max(ds[1], MaxOf(Tail(ds)))

\* triangulate() with the delays running inwards: the farthest triangle first.
TriangulateInwards(e, delaunay) ==
    LET e1 == [e EXCEPT !.obs.triangulated = @ + 1, !.hist.tri = @ + 1]
        e2 == [e1 EXCEPT !.obs.delaunator = @ + 1]
    IN IF Len(e.livingCells) < 3
       THEN [e1 EXCEPT !.triangles = <<>>]
       ELSE IF delaunay = <<>>
       THEN [e2 EXCEPT !.triangles = <<>>]
       ELSE LET sorted == SortByDist(delaunay)
                maxDist == MaxOf(sorted)
            IN [e2 EXCEPT !.triangles =
                   [k \in 1..Len(sorted) |->
                       [distFromCenter |-> sorted[k],
                        delay |-> ((maxDist - sorted[k]) * MaxDelay) \div maxDist,
                        progress |-> 0]]]

\* triangulate(): nothing below 3 points; else one triangle per triangle of the
\* library, sorted by distFromCenter, with delay = distFromCenter / maxDist * 500.
Triangulate(e, delaunay) ==
    LET e1 == [e EXCEPT !.obs.triangulated = @ + 1, !.hist.tri = @ + 1]
        e2 == [e1 EXCEPT !.obs.delaunator = @ + 1]
    IN IF Len(e.livingCells) < 3
       THEN [e1 EXCEPT !.triangles = <<>>]
       ELSE IF delaunay = <<>>
       THEN [e2 EXCEPT !.triangles = <<>>]
       ELSE LET sorted == SortByDist(delaunay)
                maxDist == MaxOf(sorted)
            IN [e2 EXCEPT !.triangles =
                   [k \in 1..Len(sorted) |->
                       [distFromCenter |-> sorted[k],
                        delay |-> (sorted[k] * MaxDelay) \div maxDist,
                        progress |-> 0]]]

\* Progress is kept as a numerator over Full = RevealDuration^3.
Full == RevealDuration * RevealDuration * RevealDuration

\* easeOutCubic(a / RevealDuration) = 1 - (1 - a / RevealDuration)^3, times Full.
EaseOutCubic(a) ==
    Full - (RevealDuration - a) * (RevealDuration - a) * (RevealDuration - a)

\* draw(showCells, showTriangles): clears the canvas, then paints the living cells
\* (only while not triangulating) and the triangles with progress > 0.
Draw(e, showCells, showTriangles) ==
    LET n == e.gridSize
        cells == /\ showCells
                 /\ ~e.isTriangulating
                 /\ e.grid # NullGrid
                 /\ \E i \in 0..(n - 1), j \in 0..(n - 1) : e.grid[i][j] = 1
        mesh == /\ showTriangles
                /\ Len(e.triangles) > 0
                /\ \E k \in 1..Len(e.triangles) : e.triangles[k].progress > 0
    IN [e EXCEPT !.canvas = IF mesh THEN "mesh" ELSE IF cells THEN "cells" ELSE "clear",
                 !.obs.drew = TRUE]

(***************************************************************************)
(* Animation Director                                                      *)
(***************************************************************************)

\* stop() that drops the callback without invoking it.
StopWithoutCallback(e) ==
    [e EXCEPT !.isRunning = FALSE, !.isTriangulating = FALSE, !.canvas = "clear",
              !.onComplete = 0,
              !.ended = IF e.isRunning THEN @ \cup {e.run} ELSE @]

\* stop(): this.animationId is never assigned, so cancelAnimationFrame is never
\* called and every pending callback stays pending.
Stop(e) ==
    LET e1 == [e EXCEPT !.isRunning = FALSE, !.isTriangulating = FALSE,
                        !.canvas = "clear",
                        !.ended = IF e.isRunning THEN @ \cup {e.run} ELSE @]
    IN IF e1.onComplete # 0
       THEN Invoke([e1 EXCEPT !.onComplete = 0], e1.onComplete, "stop")
       ELSE e1

\* The closure fade that invokes the callback before it marks the run ended
\* and clears the canvas.
FadeBodyCallbackFirst(e, task) ==
    LET e1 == Draw(e, FALSE, TRUE)
    IN IF task.age < FadeDuration
       THEN RequestAnimationFrame(e1, task)
       ELSE LET e2 == IF e1.onComplete # 0
                      THEN Invoke(e1, e1.onComplete, "fadeOut") ELSE e1
            IN [e2 EXCEPT !.isRunning = FALSE, !.canvas = "clear",
                          !.ended = @ \cup {e.run},
                          !.hist.natural = TRUE,
                          !.hist.naturalBorn = task.born]

\* The closure fade of fadeOut() past its guard: one frame of the fade-out, or
\* the natural end of the run.
FadeBody(e, task) ==
    LET e1 == Draw(e, FALSE, TRUE)
    IN IF task.age < FadeDuration
       THEN RequestAnimationFrame(e1, task)
       ELSE LET e2 == [e1 EXCEPT !.isRunning = FALSE, !.canvas = "clear",
                                 !.ended = @ \cup {e.run},
                                 !.hist.natural = TRUE,
                                 !.hist.naturalBorn = task.born]
            IN IF e2.onComplete # 0 THEN Invoke(e2, e2.onComplete, "fadeOut") ELSE e2

\* The fade closure without its isRunning guard.
FadeUnguarded(e, task) == FadeBody(e, task)

\* The closure fade of fadeOut(), task.age being performance.now() - startTime.
Fade(e, task) == IF ~e.isRunning THEN e ELSE FadeBody(e, task)

\* fadeOut(): startTime = performance.now(), then the first call of fade.
FadeOut(e, by) ==
    Fade([e EXCEPT !.hist.fade = IF e.isRunning THEN @ + 1 ELSE @],
         Task("fade", by, e.run, 0))

\* The body of animate's forEach for one triangle.
AnimateTriangle(tri, elapsed) ==
    LET adjustedElapsed == elapsed - tri.delay
    IN IF adjustedElapsed > 0
       THEN [tri EXCEPT !.progress = EaseOutCubic(Min(RevealDuration, adjustedElapsed))]
       ELSE tri

\* setTimeout(() => this.fadeOut(), 500).
SetHoldTimer(e, by) ==
    [e EXCEPT !.timers = Append(@, [left |-> HoldDelay, by |-> by, born |-> e.run]),
              !.obs.scheduled = @ + 1,
              !.hist.hold = @ + 1]

\* animate().
Animate(e, by) ==
    IF ~e.isRunning THEN e
    ELSE LET elapsed == e.sinceTriStart
             tris == [k \in 1..Len(e.triangles) |->
                         AnimateTriangle(e.triangles[k], elapsed)]
             allComplete == \A k \in 1..Len(tris) :
                                /\ elapsed - tris[k].delay > 0
                                /\ ~(tris[k].progress < Full)
             e1 == Draw([e EXCEPT !.triangles = tris], FALSE, TRUE)
         IN IF allComplete
            THEN SetHoldTimer(e1, by)
            ELSE RequestAnimationFrame(e1, Task("animate", by, e.run, 0))

\* An update() that computes one generation per call at most (an if for the
\* while).
SimulationLoopOncePerCall(e, targetFrame) ==
    IF e.currentFrame < targetFrame /\ e.currentFrame < maxFrames
    THEN LET u == UpdateGrid(e.grid, e.nextGrid, e.gridSize)
             e1 == [e EXCEPT !.grid = u.grid, !.nextGrid = u.nextGrid,
                             !.currentFrame = @ + 1,
                             !.obs.stepped = @ + 1,
                             !.hist.steps = @ + 1,
                             !.hist.stepAfterTri = @ \/ (e.hist.tri > 0),
                             !.hist.stepAfterLow = @ \/ e.hist.low]
         IN IF CountLivingCells(e1.grid, e1.gridSize) <= minCells
            THEN [e1 EXCEPT !.currentFrame = maxFrames, !.hist.low = TRUE]
            ELSE e1
    ELSE e

\* The while loop of update(): generations until targetFrame, maxFrames or the
\* early stop.
RECURSIVE SimulationLoop(_, _)
SimulationLoop(e, targetFrame) ==
    IF e.currentFrame < targetFrame /\ e.currentFrame < maxFrames
    THEN LET u == UpdateGrid(e.grid, e.nextGrid, e.gridSize)
             e1 == [e EXCEPT !.grid = u.grid, !.nextGrid = u.nextGrid,
                             !.currentFrame = @ + 1,
                             !.obs.stepped = @ + 1,
                             !.hist.steps = @ + 1,
                             !.hist.stepAfterTri = @ \/ (e.hist.tri > 0),
                             !.hist.stepAfterLow = @ \/ e.hist.low]
         IN IF CountLivingCells(e1.grid, e1.gridSize) <= minCells
            THEN [e1 EXCEPT !.currentFrame = maxFrames, !.hist.low = TRUE]
            ELSE SimulationLoop(e1, targetFrame)
    ELSE e

\* update() past its guard: the generations that are due, a frame of cells and,
\* once currentFrame has reached maxFrames, the floor, the triangulation and the
\* first call of animate.  One result per outcome of the shuffle of
\* ensureMinimumCells and of the triangulation.
UpdateBodyWith(e, by, outputs) ==
    LET targetFrame == e.sinceSimStart \div frameDelay
        e1 == Draw(SimulationLoop(e, targetFrame), TRUE, FALSE)
    IN IF e1.currentFrame >= maxFrames
       THEN {Animate([Triangulate(
                          [e1 EXCEPT !.grid = g,
                                     !.livingCells = CollectLivingCells(g, e1.gridSize),
                                     !.obs.collected = @ + 1],
                          delaunay)
                        EXCEPT !.isTriangulating = TRUE, !.sinceTriStart = 0], by) :
                 g \in EnsureMinimumCells(e1.grid, e1.gridSize,
                                          MinimumBeforeTriangulation),
                 delaunay \in outputs}
       ELSE {RequestAnimationFrame(e1, Task("update", by, e.run, 0))}

\* update() past its guard, with the library's outputs the director's
\* specification explores.
UpdateBody(e, by) == UpdateBodyWith(e, by, DelaunayOutputs)

\* update() without its isRunning guard.
UpdateUnguarded(e, by) == UpdateBody(e, by)

\* update().
Update(e, by) == IF ~e.isRunning THEN {e} ELSE UpdateBody(e, by)

\* runFromClick that registers the new callback before stopping the old run.
RunFromClickRegisterFirst(e, seed) ==
    LET r == e.run + 1
        e0 == [e EXCEPT !.onComplete = r]
        e1 == IF e0.isRunning THEN Stop(e0) ELSE e0
        e2 == [e1 EXCEPT !.run = r, !.hist = NoHist,
                         !.isRunning = TRUE, !.isTriangulating = FALSE,
                         !.triangles = <<>>, !.currentFrame = 0]
        e3 == [InitializeFromPoint(e2, seed) EXCEPT !.sinceSimStart = 0]
    IN Update(e3, r)

\* runFromClick(x, y, targetSection, onComplete): seed is the outcome of the
\* random fill around (x, y); the callback of the r-th call is callback r.
RunFromClick(e, seed) ==
    LET r == e.run + 1
        e1 == IF e.isRunning THEN Stop(e) ELSE e
        e2 == [e1 EXCEPT !.run = r, !.hist = NoHist,
                         !.onComplete = r,
                         !.isRunning = TRUE, !.isTriangulating = FALSE,
                         !.triangles = <<>>, !.currentFrame = 0]
        e3 == [InitializeFromPoint(e2, seed) EXCEPT !.sinceSimStart = 0]
    IN Update(e3, r)

(***************************************************************************)
(* The director's specification: the page calls runFromClick and stop at   *)
(* any time, the browser runs the requested frame callbacks oldest first   *)
(* and the hold timers once they are due, and the clock advances.          *)
(***************************************************************************)

Runs == 1..MaxRuns

\* The state the constructor leaves.
EngineConstructed(n, a) ==
    /\ gridSize = n
    /\ grid = NullGrid
    /\ nextGrid = NullGrid
    /\ livingCells = <<>>
    /\ currentFrame = 0
    /\ isRunning = FALSE
    /\ isTriangulating = FALSE
    /\ triangles = <<>>
    /\ onComplete = 0
    /\ sinceSimStart = 0
    /\ sinceTriStart = 0
    /\ rafQueue = <<>>
    /\ timers = <<>>
    /\ canvas = "clear"
    /\ run = 0
    /\ called = [r \in Runs |-> 0]
    /\ lastCall = NoCall
    /\ hist = NoHist
    /\ ended = {}
    /\ seedInfo = NoSeedInfo
    /\ delivered = [fn |-> "none", odd |-> FALSE]
    /\ hero = NoHero
    /\ view = EngineView
    /\ mem = NoMem
    /\ app = a
    /\ obs = NoObs("constructor", 0)

Constructed(n) == EngineConstructed(n, NoApp)

Init == Constructed(EngineGridSize)

\* The browser has run one more callback, of function fn.
Delivered(fn) == delivered' = [fn |-> fn, odd |-> ~delivered.odd]

\* The page calls runFromClick.
CallRunFromClick ==
    /\ run < MaxRuns
    /\ UNCHANGED delivered
    /\ \E seed \in SeedGrids :
          \E e \in RunFromClick([Eng EXCEPT !.obs = NoObs("runFromClick", 0)], seed) :
              Commit(e)

\* The page calls stop.
CallStop ==
    /\ run > 0
    /\ UNCHANGED delivered
    /\ Commit(Stop([Eng EXCEPT !.obs = NoObs("stop", 0),
                                !.hist.stoppedAtOnce =
                                    @ \/ (isRunning /\ ~hist.fired)]))

\* The engine with its oldest requested frame callback taken off the queue.
Dequeued ==
    [Eng EXCEPT !.rafQueue = Tail(rafQueue),
                !.obs = NoObs(Head(rafQueue).fn, Head(rafQueue).by),
                !.hist.fired = TRUE]

\* The browser runs a requested update callback.
FrameUpdate ==
    /\ rafQueue # <<>>
    /\ Head(rafQueue).fn = "update"
    /\ Delivered("update")
    /\ \E e \in Update(Dequeued, Head(rafQueue).by) : Commit(e)

\* The browser runs a requested animate callback.
FrameAnimate ==
    /\ rafQueue # <<>>
    /\ Head(rafQueue).fn = "animate"
    /\ Delivered("animate")
    /\ Commit(Animate(Dequeued, Head(rafQueue).by))

\* The browser runs a requested fade callback.
FrameFade ==
    /\ rafQueue # <<>>
    /\ Head(rafQueue).fn = "fade"
    /\ Delivered("fade")
    /\ Commit(Fade(Dequeued, Head(rafQueue)))

\* The oldest hold timer is due: its callback calls fadeOut().
HoldTimer ==
    /\ timers # <<>>
    /\ Head(timers).left = 0
    /\ Delivered("hold")
    /\ LET t == Head(timers)
           e == [Eng EXCEPT !.timers = Tail(timers),
                            !.obs = NoObs("hold", t.by),
                            !.hist.fired = TRUE,
                            !.hist.holdFired =
                                IF t.born = run /\ isRunning THEN @ + 1 ELSE @]
       IN Commit(FadeOut(e, t.by))

\* TickMs milliseconds pass.  A difference to a start time is kept up to the
\* value from which on the code no longer tells it apart.
Tick ==
    /\ rafQueue # <<>> \/ timers # <<>>
    /\ sinceSimStart' = Min(sinceSimStart + TickMs, maxFrames * frameDelay)
    /\ sinceTriStart' = Min(sinceTriStart + TickMs, MaxDelay + RevealDuration)
    /\ rafQueue' = [k \in 1..Len(rafQueue) |->
                       IF rafQueue[k].fn = "fade"
                       THEN [rafQueue[k] EXCEPT !.age = Min(@ + TickMs, FadeDuration)]
                       ELSE rafQueue[k]]
    /\ timers' = [k \in 1..Len(timers) |->
                     [timers[k] EXCEPT !.left = Max(@ - TickMs, 0)]]
    /\ obs' = NoObs("tick", 0)
    /\ UNCHANGED <<gridSize, grid, nextGrid, livingCells, currentFrame, isRunning,
                   isTriangulating, triangles, onComplete, canvas, run, called,
                   lastCall, hist, ended, seedInfo, delivered, hero, view, mem, app>>

Next ==
    \/ CallRunFromClick
    \/ CallStop
    \/ FrameUpdate
    \/ FrameAnimate
    \/ FrameFade
    \/ HoldTimer
    \/ Tick

Spec == Init /\ [][Next]_vars

\* The frame callback at the head of the queue is of function fn and is run.
FrameDelivered(fn) ==
    /\ rafQueue # <<>>
    /\ Head(rafQueue).fn = fn
    /\ Delivered(fn)

\* The oldest hold timer is due and its callback is run.
HoldDelivered ==
    /\ timers # <<>>
    /\ Head(timers).left = 0
    /\ Delivered("hold")

\* The browser delivers every requested frame callback and every due timer, and
\* time passes while any is pending; the page is free to call or not.  A step
\* of Next is a FrameDelivered("update") step exactly if it is a FrameUpdate
\* step, and likewise for the other callbacks.
Delivery ==
    /\ WF_delivered(FrameDelivered("update"))
    /\ WF_delivered(FrameDelivered("animate"))
    /\ WF_delivered(FrameDelivered("fade"))
    /\ WF_delivered(HoldDelivered)
    /\ WF_vars(Tick)

FairSpec == Spec /\ Delivery

(***************************************************************************)
(* Correspondence Matcher (HeroLogoAnimation.matchPoints).  A point is a   *)
(* pair <<x, y>>; distances are compared by their squares.  The field to  *)
(* of an entry is a reference to a target object or a new centre object:    *)
(* toIndex is the index of that target (1-based), 0 for the centre.        *)
(***************************************************************************)

\* The distance with tp.x in the place of tp.y.
Dist2WithTypo(cp, tp) ==
    (cp[1] - tp[1]) * (cp[1] - tp[1]) + (cp[2] - tp[1]) * (cp[2] - tp[1])

\* Math.hypot(cp.x - tp.x, cp.y - tp.y), squared.
Dist2(cp, tp) == (cp[1] - tp[1]) * (cp[1] - tp[1]) + (cp[2] - tp[2]) * (cp[2] - tp[2])

\* { x: this.canvas.width / 2, y: this.canvas.height / 2 }.
Centre(width, height) == <<width \div 2, height \div 2>>

\* bestDist < this.canvas.width * 0.6, bestDist being the root of d2.
BelowMaxDist(d2, width) == 25 * d2 < 9 * width * width

\* The state of the search before the inner loop: bestDist = Infinity,
\* bestIdx = -1 (target indices are 1-based in the model, 0 is none).
NoBest == [found |-> FALSE, dist2 |-> 0, idx |-> 0]

\* The inner loop of matchPoints from target index i on: the nearest target
\* that is not in usedTargets, the first of them on equal distance.
RECURSIVE NearestLoop(_, _, _, _, _)
NearestLoop(cp, target, usedTargets, i, best) ==
    IF i > Len(target) THEN best
    ELSE IF i \in usedTargets THEN NearestLoop(cp, target, usedTargets, i + 1, best)
    ELSE LET dist2 == Dist2(cp, target[i])
         IN IF ~best.found \/ dist2 < best.dist2
            THEN NearestLoop(cp, target, usedTargets, i + 1,
                             [found |-> TRUE, dist2 |-> dist2, idx |-> i])
            ELSE NearestLoop(cp, target, usedTargets, i + 1, best)

\* The body of the outer loop that pairs without recording the target as used.
MatchOneWithoutClaim(m, cp, target, width, height) ==
    LET best == NearestLoop(cp, target, m.usedTargets, 1, NoBest)
    IN IF best.found /\ BelowMaxDist(best.dist2, width)
       THEN [m EXCEPT !.matched = Append(@, [from |-> cp, to |-> target[best.idx], toIndex |-> best.idx,
                                              fadeIn |-> FALSE, fadeOut |-> FALSE])]
       ELSE [m EXCEPT !.matched = Append(@, [from |-> cp, to |-> Centre(width, height), toIndex |-> 0,
                                              fadeIn |-> FALSE, fadeOut |-> TRUE])]

\* The body of the outer loop that pairs at any distance.
MatchOneAtAnyDistance(m, cp, target, width, height) ==
    LET best == NearestLoop(cp, target, m.usedTargets, 1, NoBest)
    IN IF best.found
       THEN [usedTargets |-> m.usedTargets \cup {best.idx},
             matched |-> Append(m.matched, [from |-> cp, to |-> target[best.idx], toIndex |-> best.idx,
                                            fadeIn |-> FALSE, fadeOut |-> FALSE])]
       ELSE [m EXCEPT !.matched = Append(@, [from |-> cp, to |-> Centre(width, height), toIndex |-> 0,
                                              fadeIn |-> FALSE, fadeOut |-> TRUE])]

\* The body of the outer loop of matchPoints for the current point cp, m being
\* [usedTargets, matched] before it.
MatchOne(m, cp, target, width, height) ==
    LET best == NearestLoop(cp, target, m.usedTargets, 1, NoBest)
    IN IF best.found /\ BelowMaxDist(best.dist2, width)
       THEN [usedTargets |-> m.usedTargets \cup {best.idx},
             matched |-> Append(m.matched, [from |-> cp, to |-> target[best.idx], toIndex |-> best.idx,
                                            fadeIn |-> FALSE, fadeOut |-> FALSE])]
       ELSE [m EXCEPT !.matched = Append(@, [from |-> cp, to |-> Centre(width, height), toIndex |-> 0,
                                              fadeIn |-> FALSE, fadeOut |-> TRUE])]

\* The outer loop that takes the current points from the last to the first.
RECURSIVE MatchLoopBackwards(_, _, _, _, _, _)
MatchLoopBackwards(m, current, target, width, height, c) ==
    IF c > Len(current) THEN m
    ELSE MatchLoopBackwards(MatchOne(m, current[Len(current) + 1 - c], target,
                                     width, height),
                            current, target, width, height, c + 1)

\* The outer loop of matchPoints from the c-th current point on.
RECURSIVE MatchLoop(_, _, _, _, _, _)
MatchLoop(m, current, target, width, height, c) ==
    IF c > Len(current) THEN m
    ELSE MatchLoop(MatchOne(m, current[c], target, width, height),
                   current, target, width, height, c + 1)

\* The last loop of matchPoints from target index i on: a fade-in entry for
\* every target that is not in usedTargets.
RECURSIVE FadeInLoop(_, _, _, _, _, _)
FadeInLoop(matched, usedTargets, target, width, height, i) ==
    IF i > Len(target) THEN matched
    ELSE FadeInLoop(IF i \in usedTargets THEN matched
                    ELSE Append(matched, [from |-> Centre(width, height), to |-> target[i], toIndex |-> i,
                                          fadeIn |-> TRUE, fadeOut |-> FALSE]),
                    usedTargets, target, width, height, i + 1)

\* matchPoints that emits no fade-in entries.
MatchPointsWithoutFadeIn(current, target, width, height) ==
    MatchLoop([usedTargets |-> {}, matched |-> <<>>], current, target, width, height, 1)

\* matchPoints(current, target) on a canvas of the given width and height; the
\* result is [usedTargets, matched], matched being the returned array.
MatchPoints(current, target, width, height) ==
    LET m == MatchLoop([usedTargets |-> {}, matched |-> <<>>],
                       current, target, width, height, 1)
    IN [m EXCEPT !.matched = FadeInLoop(m.matched, m.usedTargets, target,
                                         width, height, 1)]

(***************************************************************************)
(* HeroLogoAnimation: the looping variant.  Its grid, its buffers and the  *)
(* record of its last simulation are kept in the engine's variables, its   *)
(* other fields in hero.  Coordinates are in units of cellSize / 2, so the *)
(* point of cell (i, j) is <<2i + 1, 2j + 1>> and the canvas is            *)
(* 2 * gridSize wide.                                                      *)
(***************************************************************************)
HeroGridSize == 8
HeroMaxFrames == 12
HeroMinCells == 8
targetCells == 12
morphDuration == 1500
FirstEvolveDelay == 3000
NextEvolveDelay == 2500

\* At most MaxFormations calls of runSimulation.
MaxFormations == 3

\* The largest size of the hero's canvas, in px.
HeroMaxSize == 300

\* resize() of the hero, its container being w by h.
HeroResize(e, w, h) ==
    LET size == Min(w, Min(h, HeroMaxSize))
    IN [e EXCEPT !.view = [width |-> size, height |-> size,
                           cellWidth |-> Scale(size, e.gridSize),
                           cellHeight |-> Scale(size, e.gridSize)]]

\* What the hero's constructor leaves: it sets gridSize before it calls resize().
HeroView ==
    LET size == Min(InitialWindow[1], Min(InitialWindow[2], HeroMaxSize))
    IN [width |-> size, height |-> size,
        cellWidth |-> Scale(size, HeroGridSize), cellHeight |-> Scale(size, HeroGridSize)]

\* The canvas width and height in units of cellSize / 2.
HeroCanvas == 2 * HeroGridSize

\* addRandomCells that fills up to minCells instead of targetCount.
AddRandomCellsToMinCells(g, n, targetCount) ==
    LET emptyCells == EmptyCells(g, n)
        currentCount == CountLivingCells(g, n)
        needed == HeroMinCells - currentCount
    IN {SetAlive(g, n, S) :
            S \in ShuffledFirst(emptyCells, Max(0, Min(needed, Len(emptyCells))))}

\* addRandomCells(targetCount): the grids it can leave, one per shuffle outcome.
AddRandomCells(g, n, targetCount) ==
    LET emptyCells == EmptyCells(g, n)
        currentCount == CountLivingCells(g, n)
        needed == targetCount - currentCount
    IN {SetAlive(g, n, S) :
            S \in ShuffledFirst(emptyCells, Max(0, Min(needed, Len(emptyCells))))}

\* collectLivingCells() of the hero: the points of the living cells, in scan order.
HeroCollectLivingCells(g, n) ==
    LET cells == CollectLivingCells(g, n)
    IN [k \in 1..Len(cells) |-> <<2 * cells[k][1] + 1, 2 * cells[k][2] + 1>>]

\* Delaunator.from(coords).triangles for n >= 3 points is the library's (outside
\* src/): a flat list of 0-based point indices, three per triangle.  The model
\* explores no triangle (collinear points) and the fan around point 0.
RECURSIVE Fan(_)
Fan(n) == IF n < 3 THEN <<>> ELSE Fan(n - 1) \o <<0, n - 2, n - 1>>

DelaunatorTriangles(n) == { <<>>, Fan(n) }

\* The characters of the decimal digits.
DigitChars == <<"0", "1", "2", "3", "4", "5", "6", "7", "8", "9">>

\* The number n as the template literal writes it: its decimal digits.
RECURSIVE Digits(_)
Digits(n) ==
    IF n < 10 THEN <<DigitChars[n + 1]>>
    ELSE Digits(n \div 10) \o <<DigitChars[(n % 10) + 1]>>

\* A key that keeps the direction of the pair: `${a}-${b}`.
EdgeKeyDirected(a, b) == Digits(a) \o <<"-">> \o Digits(b)

\* The key of the pair [a, b]: a < b ? `${a}-${b}` : `${b}-${a}`.
EdgeKey(a, b) ==
    IF a < b THEN Digits(a) \o <<"-">> \o Digits(b)
    ELSE Digits(b) \o <<"-">> \o Digits(a)

\* The body of the loop over pairs: the edge [a, b] is pushed unless its key is
\* in edgeSet.
AddEdge(acc, points, a, b) ==
    LET key == EdgeKey(a, b)
    IN IF key \in acc.edgeSet THEN acc
       ELSE [edgeSet |-> acc.edgeSet \cup {key},
             edges |-> Append(acc.edges, [p1 |-> points[a + 1], p2 |-> points[b + 1],
                                          index |-> Len(acc.edges)])]

\* The loop over the triangles from flat index i (1-based) on.
RECURSIVE EdgesLoop(_, _, _, _)
EdgesLoop(acc, points, tris, i) ==
    IF i > Len(tris) THEN acc
    ELSE LET a1 == AddEdge(acc, points, tris[i], tris[i + 1])
             a2 == AddEdge(a1, points, tris[i + 1], tris[i + 2])
             a3 == AddEdge(a2, points, tris[i + 2], tris[i])
         IN EdgesLoop(a3, points, tris, i + 3)

\* getEdgesFromPoints without its length test.
GetEdgesFromPointsUnguarded(points, tris) ==
    [delaunator |-> 1,
     edges |-> EdgesLoop([edgeSet |-> {}, edges |-> <<>>], points, tris, 1).edges]

\* getEdgesFromPoints(points), tris being what the library returns for
\* them: the edges, and how often Delaunator.from was called.
GetEdgesFromPoints(points, tris) ==
    IF Len(points) < 3 THEN [delaunator |-> 0, edges |-> <<>>]
    ELSE [delaunator |-> 1,
          edges |-> EdgesLoop([edgeSet |-> {}, edges |-> <<>>], points, tris, 1).edges]

\* The for loop of runSimulation from frame f on that does not break.
RECURSIVE HeroSimulationLoopNoBreak(_, _)
HeroSimulationLoopNoBreak(e, f) ==
    IF f < HeroMaxFrames
    THEN LET u == UpdateGrid(e.grid, e.nextGrid, e.gridSize)
             e1 == [e EXCEPT !.grid = u.grid, !.nextGrid = u.nextGrid,
                             !.obs.stepped = @ + 1,
                             !.hist.steps = @ + 1,
                             !.hist.stepAfterLow = @ \/ e.hist.low]
         IN IF CountLivingCells(e1.grid, e1.gridSize) <= HeroMinCells
            THEN HeroSimulationLoopNoBreak([e1 EXCEPT !.hist.low = TRUE], f + 1)
            ELSE HeroSimulationLoopNoBreak(e1, f + 1)
    ELSE e

\* The for loop of runSimulation from frame f on.
RECURSIVE HeroSimulationLoop(_, _)
HeroSimulationLoop(e, f) ==
    IF f < HeroMaxFrames
    THEN LET u == UpdateGrid(e.grid, e.nextGrid, e.gridSize)
             e1 == [e EXCEPT !.grid = u.grid, !.nextGrid = u.nextGrid,
                             !.obs.stepped = @ + 1,
                             !.hist.steps = @ + 1,
                             !.hist.stepAfterLow = @ \/ e.hist.low]
         IN IF CountLivingCells(e1.grid, e1.gridSize) <= HeroMinCells
            THEN [e1 EXCEPT !.hist.low = TRUE]
            ELSE HeroSimulationLoop(e1, f + 1)
    ELSE e

\* morphDuration^3 / 40: with t = elapsed / morphDuration < 1/2,
\* easeInOutCubic(t) = 4 t^3 < 0.1 exactly if elapsed^3 is below it.
TenthCubed == ((morphDuration * morphDuration) \div 40) * morphDuration

\* easeInOutCubic(elapsed / morphDuration) < 0.1.
EasedBelowTenth(elapsed) ==
    /\ 2 * elapsed < morphDuration
    /\ elapsed * elapsed * elapsed < TenthCubed

\* easeInOutCubic(elapsed / morphDuration) > 0.9, that is (2 - 2t)^3 / 2 < 0.1.
EasedAboveNineTenths(elapsed) ==
    LET rest == morphDuration - elapsed
    IN /\ 2 * elapsed >= morphDuration
       /\ rest * rest * rest < TenthCubed

\* getInterpolatedPoints(progress): one point per entry of morphData that is not
\* skipped (the point is given by its entry; its position is between from and to).
GetInterpolatedPoints(morphData, elapsed) ==
    LET Shown(match) ==
            /\ ~(match.fadeOut /\ EasedAboveNineTenths(elapsed))
            /\ ~(match.fadeIn /\ EasedBelowTenth(elapsed))
    IN SelectSeq(morphData, Shown)

\* setTimeout(() => this.evolveToNextFormation(), delay).
SetEvolveTimer(e, delay) ==
    [e EXCEPT !.hero.evolveTimers = Append(@, delay), !.obs.scheduled = @ + 1]

\* The points draw() hands to getEdgesFromPoints.
PointsToDraw(e) ==
    IF e.hero.isMorphing /\ e.hero.sinceMorphStart < morphDuration
    THEN GetInterpolatedPoints(e.hero.morphData, e.hero.sinceMorphStart)
    ELSE IF e.hero.isMorphing THEN e.hero.targetPoints
    ELSE e.hero.currentPoints

\* draw() that schedules the next evolution in every frame between morphs.
HeroDrawSchedulingEveryFrame(e, tris) ==
    LET complete == e.hero.isMorphing /\ e.hero.sinceMorphStart >= morphDuration
        e1 == IF complete
              THEN [e EXCEPT !.hero.isMorphing = FALSE,
                             !.hero.currentPoints = e.hero.targetPoints,
                             !.hero.morphs = @ + 1]
              ELSE e
        e2 == IF e1.hero.isMorphing THEN e1 ELSE SetEvolveTimer(e1, NextEvolveDelay)
        pointsToDraw == PointsToDraw(e)
        edges == GetEdgesFromPoints(pointsToDraw, tris)
    IN [e2 EXCEPT !.hero.drawn = Len(pointsToDraw),
                  !.hero.drawnEdges = Len(edges.edges),
                  !.obs.delaunator = @ + edges.delaunator,
                  !.obs.drew = TRUE]

\* draw() that keeps the old points when a morph completes.
HeroDrawKeepingPoints(e, tris) ==
    LET complete == e.hero.isMorphing /\ e.hero.sinceMorphStart >= morphDuration
        e1 == IF complete
              THEN SetEvolveTimer([e EXCEPT !.hero.isMorphing = FALSE,
                                            !.hero.morphs = @ + 1],
                                  NextEvolveDelay)
              ELSE e
        pointsToDraw == PointsToDraw(e)
        edges == GetEdgesFromPoints(pointsToDraw, tris)
    IN [e1 EXCEPT !.hero.drawn = Len(pointsToDraw),
                  !.hero.drawnEdges = Len(edges.edges),
                  !.obs.delaunator = @ + edges.delaunator,
                  !.obs.drew = TRUE]

\* draw() that does not schedule the next evolution when a morph completes.
HeroDrawWithoutTimer(e, tris) ==
    LET complete == e.hero.isMorphing /\ e.hero.sinceMorphStart >= morphDuration
        e1 == IF complete
              THEN [e EXCEPT !.hero.isMorphing = FALSE,
                             !.hero.currentPoints = e.hero.targetPoints,
                             !.hero.morphs = @ + 1]
              ELSE e
        pointsToDraw == PointsToDraw(e)
        edges == GetEdgesFromPoints(pointsToDraw, tris)
    IN [e1 EXCEPT !.hero.drawn = Len(pointsToDraw),
                  !.hero.drawnEdges = Len(edges.edges),
                  !.obs.delaunator = @ + edges.delaunator,
                  !.obs.drew = TRUE]

\* draw() of the hero, tris being what the library returns for the points drawn.
HeroDraw(e, tris) ==
    LET complete == e.hero.isMorphing /\ e.hero.sinceMorphStart >= morphDuration
        e1 == IF complete
              THEN SetEvolveTimer([e EXCEPT !.hero.isMorphing = FALSE,
                                            !.hero.currentPoints = e.hero.targetPoints,
                                            !.hero.morphs = @ + 1],
                                  NextEvolveDelay)
              ELSE e
        pointsToDraw == PointsToDraw(e)
        edges == GetEdgesFromPoints(pointsToDraw, tris)
    IN [e1 EXCEPT !.hero.drawn = Len(pointsToDraw),
                  !.hero.drawnEdges = Len(edges.edges),
                  !.obs.delaunator = @ + edges.delaunator,
                  !.obs.drew = TRUE]

\* startDrawLoop(): the first draw() and the request of the next frame.
StartDrawLoop(e) ==
    IF e.hero.isAnimating THEN {e}
    ELSE {HeroDraw([e EXCEPT !.hero.isAnimating = TRUE, !.hero.drawLoops = @ + 1,
                             !.obs.scheduled = @ + 1], tris) :
              tris \in DelaunatorTriangles(Len(e.hero.currentPoints))}

\* runSimulation(): the generations, the floor of targetCells, the new points,
\* then the first formation or the set-up of the morph.
RunSimulation(e) ==
    LET e1 == HeroSimulationLoop([e EXCEPT !.hist = NoHist,
                                           !.hero.formations = @ + 1], 0)
        n == e1.gridSize
        grids == IF CountLivingCells(e1.grid, n) < targetCells
                 THEN AddRandomCells(e1.grid, n, targetCells)
                 ELSE {e1.grid}
        Formed(g, tris) ==
            LET newPoints == HeroCollectLivingCells(g, n)
                e2 == [e1 EXCEPT !.grid = g, !.obs.collected = @ + 1,
                                 !.livingCells = newPoints]
            IN IF Len(e.hero.currentPoints) = 0
               THEN LET edges == GetEdgesFromPoints(newPoints, tris)
                        e3 == [e2 EXCEPT !.hero.currentPoints = newPoints,
                                         !.hero.edges = edges.edges,
                                         !.obs.delaunator = @ + edges.delaunator]
                    IN {SetEvolveTimer(e4, FirstEvolveDelay) : e4 \in StartDrawLoop(e3)}
               ELSE {[e2 EXCEPT !.hero.targetPoints = newPoints,
                                !.hero.morphData =
                                    MatchPoints(e.hero.currentPoints, newPoints,
                                                HeroCanvas, HeroCanvas).matched,
                                !.hero.sinceMorphStart = 0,
                                !.hero.isMorphing = TRUE]}
    IN UNION {UNION {Formed(g, tris) :
                         tris \in DelaunatorTriangles(CountLivingCells(g, n))} :
                  g \in grids}

\* A blinker: three cells in a row from (x, y).
Blinker(x, y) == {<<x, y>>, <<x + 1, y>>, <<x + 2, y>>}

\* Outcomes of the random fill of init() and evolveToNextFormation() that the
\* model explores: no cell; the glider (5 cells: the loop breaks after one
\* generation); four blocks (16 cells, stable); two blocks and a blinker (11
\* cells for all 12 generations, below targetCells); two blocks and a diagonal
\* (11 cells, then 9, then 8: the loop breaks after the second generation).
HeroSeedCells ==
    { {},
      {<<2, 1>>, <<3, 2>>, <<1, 3>>, <<2, 3>>, <<3, 3>>},
      Block(0, 0) \cup Block(4, 0) \cup Block(0, 4) \cup Block(4, 4),
      Block(0, 0) \cup Block(5, 0) \cup Blinker(2, 4),
      Block(0, 0) \cup Block(0, 4) \cup Diagonal(4, 1) }

HeroSeedGrids == {GridOf(HeroGridSize, S) : S \in HeroSeedCells}

\* The fields the constructor sets before it calls init(), and the grid init()
\* has filled (seed is the outcome of the fill).
HeroConstructed(seed) ==
    [gridSize |-> HeroGridSize, grid |-> seed,
     nextGrid |-> create2DArray(HeroGridSize),
     livingCells |-> <<>>, currentFrame |-> 0, isRunning |-> FALSE,
     isTriangulating |-> FALSE, triangles |-> <<>>, onComplete |-> 0,
     sinceSimStart |-> 0, sinceTriStart |-> 0, rafQueue |-> <<>>, timers |-> <<>>,
     canvas |-> "clear", run |-> 0, called |-> [r \in Runs |-> 0],
     lastCall |-> NoCall, hist |-> NoHist, ended |-> {}, seedInfo |-> NoSeedInfo,
     hero |-> [constructed |-> TRUE, currentPoints |-> <<>>, targetPoints |-> <<>>,
               morphData |-> <<>>, isMorphing |-> FALSE, sinceMorphStart |-> 0,
               isAnimating |-> FALSE, edges |-> <<>>, evolveTimers |-> <<>>,
               formations |-> 0, morphs |-> 0, drawn |-> 0, drawnEdges |-> 0,
               drawLoops |-> 0],
     view |-> HeroView, app |-> NoApp,
     obs |-> NoObs("runSimulation", 0)]

\* The variables have the values of the record e.
StateIs(e) ==
    /\ gridSize = e.gridSize
    /\ grid = e.grid
    /\ nextGrid = e.nextGrid
    /\ livingCells = e.livingCells
    /\ currentFrame = e.currentFrame
    /\ isRunning = e.isRunning
    /\ isTriangulating = e.isTriangulating
    /\ triangles = e.triangles
    /\ onComplete = e.onComplete
    /\ sinceSimStart = e.sinceSimStart
    /\ sinceTriStart = e.sinceTriStart
    /\ rafQueue = e.rafQueue
    /\ timers = e.timers
    /\ canvas = e.canvas
    /\ run = e.run
    /\ called = e.called
    /\ lastCall = e.lastCall
    /\ hist = e.hist
    /\ ended = e.ended
    /\ seedInfo = e.seedInfo
    /\ hero = e.hero
    /\ view = e.view
    /\ mem = NoMem
    /\ app = e.app
    /\ obs = e.obs
    /\ delivered = [fn |-> "none", odd |-> FALSE]

\* new HeroLogoAnimation(container): the constructor, init() and the first
\* runSimulation().
InitHero ==
    \E seed \in HeroSeedGrids :
        \E e \in RunSimulation(HeroConstructed(seed)) : StateIs(e)

\* The oldest evolve timer is due: evolveToNextFormation() refills the grid
\* (seed is the outcome) and calls runSimulation().
HeroEvolveTimer ==
    /\ hero.evolveTimers # <<>>
    /\ Head(hero.evolveTimers) = 0
    /\ hero.formations < MaxFormations
    /\ Delivered("evolve")
    /\ \E seed \in HeroSeedGrids :
          \E e \in RunSimulation([Eng EXCEPT !.hero.evolveTimers = Tail(@),
                                             !.grid = seed,
                                             !.currentFrame = 0,
                                             !.obs = NoObs("evolveToNextFormation", 0)]) :
              Commit(e)

\* The browser runs the requested frame of the draw loop: draw() and the
\* request of the next frame.
HeroFrame ==
    /\ hero.isAnimating
    /\ Delivered("heroDraw")
    /\ \E tris \in DelaunatorTriangles(Len(PointsToDraw(Eng))) :
          Commit(HeroDraw([Eng EXCEPT !.obs = [NoObs("heroDraw", 0) EXCEPT
                                                   !.scheduled = 1]], tris))

\* HeroTickMs milliseconds pass.
HeroTickMs == 500

HeroTick ==
    /\ hero.isMorphing \/ hero.evolveTimers # <<>>
    /\ UNCHANGED delivered
    /\ Commit([Eng EXCEPT
           !.hero.sinceMorphStart = Min(@ + HeroTickMs, morphDuration),
           !.hero.evolveTimers = [k \in 1..Len(@) |-> Max(@[k] - HeroTickMs, 0)],
           !.obs = NoObs("heroTick", 0)])

HeroNext ==
    \/ HeroEvolveTimer
    \/ HeroFrame
    \/ HeroTick

(***************************************************************************)
(* SpecPage: the page holds a TriangulationEngine or a HeroLogoAnimation.  *)
(***************************************************************************)
InitPage == Init \/ InitHero

NextPage ==
    \/ ~hero.constructed /\ Next
    \/ hero.constructed /\ HeroNext

SpecPage == InitPage /\ [][NextPage]_vars

\* A resize event of the window: the listener the constructor has registered
\* calls resize().
ResizeEvent ==
    /\ UNCHANGED delivered
    /\ \E size \in WindowSizes :
          LET e == [Eng EXCEPT !.obs = NoObs("resize", 0)]
          IN Commit(IF hero.constructed THEN HeroResize(e, size[1], size[2])
                    ELSE Resize(e, size[1], size[2]))

\* The page with its window resized at any time.
NextResize ==
    \/ NextPage
    \/ ResizeEvent

SpecResize == InitPage /\ [][NextResize]_vars

(***************************************************************************)
(* SpecReveal: one run from runFromClick to its natural end, the library   *)
(* returning triangles at any distances from the canvas centre.            *)
(***************************************************************************)

\* The distances of the centroids from the canvas centre, in px.
CentroidDistances == {0, 50, 100, 200}

\* What Delaunator returns to a run's triangulate(): no triangle (undefined
\* coordinates), or triangles at any distances, in any order.  triangulate() is
\* reached with 15 points or more (ensureMinimumCells(15)), so there are at
\* least two triangles; their centroids differ, so one of them is off the centre.
RevealOutputs ==
    {<<>>} \cup
    {ds \in UNION {[1..len -> CentroidDistances] : len \in 2..MaxTriangles} :
        \E k \in 1..Len(ds) : ds[k] > 0}

\* The page calls runFromClick once; the random fill leaves sixteen blocks.
RevealRunFromClick ==
    /\ run = 0
    /\ UNCHANGED delivered
    /\ \E e \in RunFromClick([Eng EXCEPT !.obs = NoObs("runFromClick", 0)],
                              GridOf(EngineGridSize,
                                     UNION {Block(3 * a, 3 * b) : a \in 0..3, b \in 0..3})) :
          Commit(e)

\* The browser runs a requested update callback.
RevealFrameUpdate ==
    /\ rafQueue # <<>>
    /\ Head(rafQueue).fn = "update"
    /\ Delivered("update")
    /\ \E e \in (IF ~Dequeued.isRunning THEN {Dequeued}
                  ELSE UpdateBodyWith(Dequeued, Head(rafQueue).by, RevealOutputs)) :
          Commit(e)

NextReveal ==
    \/ RevealRunFromClick
    \/ RevealFrameUpdate
    \/ FrameAnimate
    \/ HoldTimer
    \/ FrameFade
    \/ Tick

SpecReveal == Init /\ [][NextReveal]_vars

\* The hero on its own.
SpecHero == InitHero /\ [][HeroNext]_vars

\* The frame the draw loop has requested is run.
HeroFrameDelivered ==
    /\ hero.isAnimating
    /\ Delivered("heroDraw")

\* The oldest evolve timer is due and its callback is run.
HeroEvolveDelivered ==
    /\ hero.evolveTimers # <<>>
    /\ Head(hero.evolveTimers) = 0
    /\ hero.formations < MaxFormations
    /\ Delivered("evolve")

\* The browser delivers the frames the draw loop requests and the timers that
\* are due, and time passes.  A step of HeroNext is a HeroFrameDelivered step
\* exactly if it is a HeroFrame step, and likewise for the timer.
HeroDelivery ==
    /\ WF_delivered(HeroFrameDelivered)
    /\ WF_delivered(HeroEvolveDelivered)
    /\ WF_vars(HeroTick)

FairSpecHero == SpecHero /\ HeroDelivery

(***************************************************************************)
(* SpecTri: triangulate() and getEdgesFromPoints() on every list of up to  *)
(* MaxPoints points that collectLivingCells can leave, with coordinates in *)
(* Coords.  livingCells holds the points, triangles what triangulate()     *)
(* built from the library's triangles (before the sort), hero.edges what   *)
(* getEdgesFromPoints() returned.  The library, Delaunator, is not part of *)
(* the sources: its result is modelled from its contract, a Delaunay       *)
(* triangulation.                                                          *)
(***************************************************************************)
MaxPoints == 4

Coords == {0, 5, 10}

Abs(x) == IF x < 0 THEN -x ELSE x

\* Twice the signed area of the triangle a, b, c.
Orient(a, b, c) == (b[1] - a[1]) * (c[2] - a[2]) - (b[2] - a[2]) * (c[1] - a[1])

\* d lies strictly inside the circumcircle of the triangle a, b, c.
InCircumcircle(a, b, c, d) ==
    LET ax == a[1] - d[1]
        ay == a[2] - d[2]
        bx == b[1] - d[1]
        by == b[2] - d[2]
        cx == c[1] - d[1]
        cy == c[2] - d[2]
        det == (ax * ax + ay * ay) * (bx * cy - cx * by)
               - (bx * bx + by * by) * (ax * cy - cx * ay)
               + (cx * cx + cy * cy) * (ax * by - bx * ay)
    IN det * Orient(a, b, c) > 0

\* The triangles a Delaunay construction may return: index triples of points
\* that are not collinear and whose circumcircle strictly contains no point.
DelaunayTriples(points) ==
    LET n == Len(points)
    IN {t \in (1..n) \X (1..n) \X (1..n) :
            /\ t[1] < t[2] /\ t[2] < t[3]
            /\ Orient(points[t[1]], points[t[2]], points[t[3]]) # 0
            /\ \A k \in 1..n :
                  ~InCircumcircle(points[t[1]], points[t[2]], points[t[3]], points[k])}

EdgesOf(t) == {<<t[1], t[2]>>, <<t[2], t[3]>>, <<t[1], t[3]>>}

\* The vertex of triangle t that is not on its edge ed.
Apex(t, ed) == CHOOSE v \in {t[1], t[2], t[3]} : v # ed[1] /\ v # ed[2]

\* T is a triangulation of the points: each edge of a triangle is shared with
\* exactly one other triangle, which lies on the other side of it, or has every
\* point on the side of its triangle (an edge of the convex hull).
IsTriangulation(T, points) ==
    \A t \in T : \A ed \in EdgesOf(t) :
        LET Side(k) == Orient(points[ed[1]], points[ed[2]], points[k])
            others == {u \in T \ {t} : ed \in EdgesOf(u)}
        IN \/ /\ others = {}
              /\ \A k \in 1..Len(points) : Side(k) * Side(Apex(t, ed)) >= 0
           \/ /\ Cardinality(others) = 1
              /\ \A u \in others : Side(Apex(u, ed)) * Side(Apex(t, ed)) < 0

\* The Delaunay triangulations of the points (several when four points lie on
\* one circle; the empty one when all points are collinear).
Delaunay(points) ==
    LET triples == DelaunayTriples(points)
    IN IF triples = {} THEN {{}}
       ELSE {T \in SUBSET triples : T # {} /\ IsTriangulation(T, points)}

\* The triangles of T as the flat list of 0-based indices the library returns,
\* three per triangle (the ties of the order are broken by the lowest indices).
RECURSIVE FlatIndices(_, _)
FlatIndices(T, n) ==
    IF T = {} THEN <<>>
    ELSE LET Key(t) == (t[1] * n + t[2]) * n + t[3]
             t == CHOOSE u \in T : \A v \in T : Key(u) <= Key(v)
         IN <<t[1] - 1, t[2] - 1, t[3] - 1>> \o FlatIndices(T \ {t}, n)

\* Delaunator.from(points).triangles: the results the contract allows.
DelaunatorFrom(points) == {FlatIndices(T, Len(points)) : T \in Delaunay(points)}

\* The loop of triangulate() over triangleIndices from flat index i (1-based)
\* on: one triangle per three indices (centroid3 is three times the centroid).
RECURSIVE TrianglesLoop(_, _, _)
TrianglesLoop(cells, triangleIndices, i) ==
    IF i > Len(triangleIndices) THEN <<>>
    ELSE LET p1 == cells[triangleIndices[i] + 1]
             p2 == cells[triangleIndices[i + 1] + 1]
             p3 == cells[triangleIndices[i + 2] + 1]
         IN << [points |-> <<p1, p2, p3>>,
                centroid3 |-> <<p1[1] + p2[1] + p3[1], p1[2] + p2[2] + p3[2]>>,
                progress |-> 0, delay |-> 0] >>
            \o TrianglesLoop(cells, triangleIndices, i + 3)

\* triangulate() that also returns at once on exactly three points.
TriangleListAboveThree(cells, triangleIndices) ==
    IF Len(cells) <= 3 THEN [delaunator |-> 0, triangles |-> <<>>]
    ELSE [delaunator |-> 1, triangles |-> TrianglesLoop(cells, triangleIndices, 1)]

\* triangulate() up to the sort, triangleIndices being what the library returns
\* for the points: the triangles, and how often Delaunator.from was called.
TriangleList(cells, triangleIndices) ==
    IF Len(cells) < 3 THEN [delaunator |-> 0, triangles |-> <<>>]
    ELSE [delaunator |-> 1, triangles |-> TrianglesLoop(cells, triangleIndices, 1)]

\* The lists of up to MaxPoints points that collectLivingCells can leave: the
\* points of distinct cells, column by column and down each column.
PointLists ==
    UNION {{f \in [1..n -> Coords \X Coords] :
                \A a \in 1..n : \A b \in 1..n :
                    a < b => \/ f[a][1] < f[b][1]
                             \/ f[a][1] = f[b][1] /\ f[a][2] < f[b][2]} :
           n \in 0..MaxPoints}

\* An engine that is not running, its points being given, next to the fields h
\* of the hero.
Idle(points, h) ==
    /\ gridSize = EngineGridSize
    /\ grid = NullGrid
    /\ nextGrid = NullGrid
    /\ livingCells = points
    /\ currentFrame = 0
    /\ isRunning = FALSE
    /\ isTriangulating = FALSE
    /\ triangles = <<>>
    /\ onComplete = 0
    /\ sinceSimStart = 0
    /\ sinceTriStart = 0
    /\ rafQueue = <<>>
    /\ timers = <<>>
    /\ canvas = "clear"
    /\ run = 0
    /\ called = [r \in Runs |-> 0]
    /\ lastCall = NoCall
    /\ hist = NoHist
    /\ ended = {}
    /\ seedInfo = NoSeedInfo
    /\ delivered = [fn |-> "none", odd |-> FALSE]
    /\ hero = h
    /\ view = EngineView
    /\ mem = NoMem
    /\ app = NoApp
    /\ obs = NoObs("constructor", 0)

InitTri == \E points \in PointLists : Idle(points, [constructed |-> FALSE, edges |-> <<>>])

\* triangulate() on the points.
CallTriangulate ==
    /\ \E triangleIndices \in DelaunatorFrom(livingCells) :
          LET built == TriangleList(livingCells, triangleIndices)
          IN /\ triangles' = built.triangles
             /\ obs' = [NoObs("triangulate", 0) EXCEPT
                            !.triangulated = 1, !.delaunator = built.delaunator]
    /\ UNCHANGED <<gridSize, grid, nextGrid, livingCells, currentFrame, isRunning,
                   isTriangulating, onComplete, sinceSimStart, sinceTriStart,
                   rafQueue, timers, canvas, run, called, lastCall, hist, ended,
                   seedInfo, delivered, hero, view, mem, app>>

\* getEdgesFromPoints(points) on the points.
CallGetEdgesFromPoints ==
    /\ \E tris \in DelaunatorFrom(livingCells) :
          LET built == GetEdgesFromPoints(livingCells, tris)
          IN /\ hero' = [hero EXCEPT !.edges = built.edges]
             /\ obs' = [NoObs("getEdgesFromPoints", 0) EXCEPT
                            !.delaunator = built.delaunator]
    /\ UNCHANGED <<gridSize, grid, nextGrid, livingCells, currentFrame, isRunning,
                   isTriangulating, triangles, onComplete, sinceSimStart,
                   sinceTriStart, rafQueue, timers, canvas, run, called, lastCall,
                   hist, ended, seedInfo, delivered, view, mem, app>>

NextTri ==
    \/ CallTriangulate
    \/ CallGetEdgesFromPoints

SpecTri == InitTri /\ [][NextTri]_vars

(***************************************************************************)
(* SpecEdges: getEdgesFromPoints on EdgePointCount points, the library     *)
(* returning any list of one or two triangles over some of their indices.  *)
(***************************************************************************)
EdgePointCount == 13

\* The points: the centres of distinct cells, four to a column.
EdgePoints == [k \in 1..EdgePointCount |-> <<5 * ((k - 1) \div 4), 5 * ((k - 1) % 4)>>]

\* The indices the triangles are made of: some of one digit, some of two.
EdgeIndices == {1, 2, 11, 12}

\* A triangle: three different indices in any order.
IndexTriples ==
    {t \in [1..3 -> EdgeIndices] : t[1] # t[2] /\ t[2] # t[3] /\ t[1] # t[3]}

\* delaunay.triangles: the flat list of one triangle or of two.
IndexLists == IndexTriples \cup {t \o u : t \in IndexTriples, u \in IndexTriples}

InitEdges ==
    Idle(EdgePoints, [constructed |-> FALSE, edges |-> <<>>, triangles |-> <<>>])

\* getEdgesFromPoints(points), called once, the library returning tris.
CallGetEdgesOnIndices ==
    /\ obs.op = "constructor"
    /\ \E tris \in IndexLists :
          LET built == GetEdgesFromPoints(livingCells, tris)
          IN /\ hero' = [hero EXCEPT !.edges = built.edges, !.triangles = tris]
             /\ obs' = [NoObs("getEdgesFromPoints", 0) EXCEPT
                            !.delaunator = built.delaunator]
    /\ UNCHANGED <<gridSize, grid, nextGrid, livingCells, currentFrame, isRunning,
                   isTriangulating, triangles, onComplete, sinceSimStart,
                   sinceTriStart, rafQueue, timers, canvas, run, called, lastCall,
                   hist, ended, seedInfo, delivered, view, mem, app>>

SpecEdges == InitEdges /\ [][CallGetEdgesOnIndices]_vars

(***************************************************************************)
(* SpecMatch: matchPoints(current, target) on every two lists of up to     *)
(* MaxMatchLen points of MatchPositions, on a square canvas whose width is *)
(* one of MatchWidths (even, so that the centre is a point of the model).  *)
(* hero holds the arguments and the result.                                *)
(***************************************************************************)
MaxMatchLen == 3

MatchPositions == {<<0, 0>>, <<6, 0>>, <<3, 4>>}

MatchWidths == {0, 10, 20}

MatchLists == UNION {[1..n -> MatchPositions] : n \in 0..MaxMatchLen}

InitMatch ==
    \E current \in MatchLists : \E target \in MatchLists : \E width \in MatchWidths :
        Idle(<<>>, [constructed |-> TRUE, currentPoints |-> current,
                    targetPoints |-> target, width |-> width,
                    morphData |-> <<>>, usedTargets |-> {}])

\* this.matchPoints(this.currentPoints, this.targetPoints).
CallMatchPoints ==
    /\ LET m == MatchPoints(hero.currentPoints, hero.targetPoints,
                            hero.width, hero.width)
       IN hero' = [hero EXCEPT !.morphData = m.matched, !.usedTargets = m.usedTargets]
    /\ obs' = NoObs("matchPoints", 0)
    /\ UNCHANGED <<gridSize, grid, nextGrid, livingCells, currentFrame, isRunning,
                   isTriangulating, triangles, onComplete, sinceSimStart,
                   sinceTriStart, rafQueue, timers, canvas, run, called, lastCall,
                   hist, ended, seedInfo, delivered, view, mem, app>>

SpecMatch == InitMatch /\ [][CallMatchPoints]_vars

(***************************************************************************)
(* SpecSeed: initializeFromPoint(x, y, density) on the engine's grid, for  *)
(* every origin cell (centerCol, centerRow) and the densities 0, 1/2, 1.   *)
(* A cell is set alive when Math.random() < probability, so it can be      *)
(* alive exactly if its probability is positive and must be alive if its   *)
(* probability is 1 or more.  Of the outcomes of the fill the model takes  *)
(* the one with every such cell alive, the one with only the forced cells  *)
(* alive, and those with one more cell alive.                              *)
(***************************************************************************)
\* The densities, in halves.
Densities == {0, 1, 2}

\* const radius = Math.floor(this.gridSize / 2).
Radius(n) == n \div 2

\* distX * distX + distY * distY, the square of dist.
SeedDist2(centerCol, centerRow, i, j) ==
    Abs(i - centerCol) * Abs(i - centerCol) + Abs(j - centerRow) * Abs(j - centerRow)

\* probability > 0, with probability = density * Math.max(0, 1 - (dist / radius)
\* * 0.4): the density is positive and 0.4 * dist < radius.
ProbabilityPositive(n, centerCol, centerRow, density, i, j) ==
    /\ density > 0
    /\ 4 * SeedDist2(centerCol, centerRow, i, j) < 25 * Radius(n) * Radius(n)

\* probability >= 1: the density is 1 and dist is 0.
ProbabilityOne(n, centerCol, centerRow, density, i, j) ==
    /\ density = 2
    /\ SeedDist2(centerCol, centerRow, i, j) = 0

\* The grids the fill can leave that the model explores.
SeedOutcomes(n, centerCol, centerRow, density) ==
    LET cells == (0..(n - 1)) \X (0..(n - 1))
        can == {c \in cells :
                    ProbabilityPositive(n, centerCol, centerRow, density, c[1], c[2])}
        must == {c \in cells :
                     ProbabilityOne(n, centerCol, centerRow, density, c[1], c[2])}
    IN {GridOf(n, can), GridOf(n, must)} \cup {GridOf(n, must \cup {c}) : c \in can}

InitSeed == Idle(<<>>, NoHero)

\* initializeFromPoint(x, y, density), (centerCol, centerRow) being the cell of
\* (x, y) under the scale resize() has set.  It allocates both grids anew and
\* reads neither, so the model calls it on the constructed engine only.
CallInitializeFromPoint ==
    /\ grid = NullGrid
    /\ UNCHANGED delivered
    /\ \E centerCol \in 0..(gridSize - 1) : \E centerRow \in 0..(gridSize - 1) :
          \E density \in Densities :
              \E seed \in SeedOutcomes(gridSize, centerCol, centerRow, density) :
                  Commit(InitializeFromPoint(
                             [Eng EXCEPT !.obs = NoObs("initializeFromPoint", 0),
                                         !.seedInfo = [pattern |-> "fromPoint",
                                                       dx |-> centerCol,
                                                       dy |-> centerRow,
                                                       density |-> density]],
                             seed))

SpecSeed == InitSeed /\ [][CallInitializeFromPoint]_vars

(***************************************************************************)
(* SpecGrid: updateGrid() from every LifeN x LifeN grid.                   *)
(* SpecEnsure: ensureMinimumCells(k) on every LifeN x LifeN grid.          *)
(***************************************************************************)

\* The state of an engine of grid size n whose grid is g.
Seeded(n, g, info) ==
    /\ gridSize = n
    /\ grid = g
    /\ nextGrid = create2DArray(n)
    /\ livingCells = <<>>
    /\ currentFrame = 0
    /\ isRunning = FALSE
    /\ isTriangulating = FALSE
    /\ triangles = <<>>
    /\ onComplete = 0
    /\ sinceSimStart = 0
    /\ sinceTriStart = 0
    /\ rafQueue = <<>>
    /\ timers = <<>>
    /\ canvas = "clear"
    /\ run = 0
    /\ called = [r \in Runs |-> 0]
    /\ lastCall = NoCall
    /\ hist = NoHist
    /\ ended = {}
    /\ seedInfo = info
    /\ delivered = [fn |-> "none", odd |-> FALSE]
    /\ hero = NoHero
    /\ view = EngineView
    /\ mem = NoMem
    /\ app = NoApp
    /\ obs = NoObs("seed", 0)

AllGrids(n) == [0..(n - 1) -> [0..(n - 1) -> {0, 1}]]

InitGrid == \E g \in AllGrids(LifeN) : Seeded(LifeN, g, NoSeedInfo)

\* One call of updateGrid(); currentFrame++ (the body of the simulation loop).
StepGrid ==
    /\ currentFrame < GridSteps
    /\ LET u == UpdateGrid(grid, nextGrid, gridSize)
       IN /\ grid' = u.grid
          /\ nextGrid' = u.nextGrid
    /\ currentFrame' = currentFrame + 1
    /\ obs' = NoObs("updateGrid", 0)
    /\ UNCHANGED <<gridSize, livingCells, isRunning, isTriangulating,
                   triangles, onComplete, sinceSimStart, sinceTriStart, rafQueue,
                   timers, canvas, run, called, lastCall, hist, ended, seedInfo,
                   delivered, hero, view, mem, app>>

\* The arguments ensureMinimumCells is called with: small ones, and the number of
\* cells of the grid and one more.
EnsureArgs(n) == (0..EnsureMax) \cup {n * n, n * n + 1}

\* One call of ensureMinimumCells(k) on a seeded grid (every grid is one).
EnsureGrid ==
    /\ obs.op = "seed"
    /\ \E k \in EnsureArgs(gridSize) :
          /\ grid' \in EnsureMinimumCells(grid, gridSize, k)
          /\ obs' = [NoObs("ensureMinimumCells", 0) EXCEPT
                        !.k = k, !.before = CountLivingCells(grid, gridSize)]
    /\ UNCHANGED <<gridSize, nextGrid, livingCells, currentFrame, isRunning,
                   isTriangulating, triangles, onComplete, sinceSimStart,
                   sinceTriStart, rafQueue, timers, canvas, run, called, lastCall,
                   hist, ended, seedInfo, delivered, hero, view, mem, app>>

SpecGrid == InitGrid /\ [][StepGrid]_vars

(***************************************************************************)
(* SpecBuffer: updateGrid() cell by cell, on the two arrays that           *)
(* initializeFromPoint allocates.  Here grid and nextGrid are the contents *)
(* of the arrays this.grid and this.nextGrid refer to, and mem.grid and    *)
(* mem.nextGrid say which arrays those are (0 is null).                    *)
(***************************************************************************)

\* The engine after its constructor, with a grid size of n.
InitBuffer ==
    /\ gridSize = LifeN
    /\ grid = NullGrid
    /\ nextGrid = NullGrid
    /\ livingCells = <<>>
    /\ currentFrame = 0
    /\ isRunning = FALSE
    /\ isTriangulating = FALSE
    /\ triangles = <<>>
    /\ onComplete = 0
    /\ sinceSimStart = 0
    /\ sinceTriStart = 0
    /\ rafQueue = <<>>
    /\ timers = <<>>
    /\ canvas = "clear"
    /\ run = 0
    /\ called = [r \in Runs |-> 0]
    /\ lastCall = NoCall
    /\ hist = NoHist
    /\ ended = {}
    /\ seedInfo = NoSeedInfo
    /\ delivered = [fn |-> "none", odd |-> FALSE]
    /\ hero = NoHero
    /\ view = EngineView
    /\ mem = NoMem
    /\ app = NoApp
    /\ obs = NoObs("constructor", 0)

\* What no step of updateGrid touches.
BufferFrame ==
    UNCHANGED <<gridSize, livingCells, isRunning, isTriangulating, triangles,
                onComplete, sinceSimStart, sinceTriStart, rafQueue, timers, canvas,
                run, called, lastCall, hist, ended, seedInfo, delivered, hero, view, app>>

\* The first two lines of initializeFromPoint: each create2DArray call returns
\* a new array (1, 2); the seeding that follows leaves any grid.
AllocateBuffers ==
    /\ mem.pc = "idle"
    /\ mem.grid = 0
    /\ grid' \in AllGrids(gridSize)
    /\ nextGrid' = create2DArray(gridSize)
    /\ mem' = [mem EXCEPT !.grid = 1, !.nextGrid = 2]
    /\ currentFrame' = 0
    /\ obs' = NoObs("initializeFromPoint", 0)
    /\ BufferFrame

\* updateGrid() is entered: i = 0, j = 0.
EnterUpdateGrid ==
    /\ mem.pc = "idle"
    /\ mem.grid # 0
    /\ currentFrame < GridSteps
    /\ mem' = [mem EXCEPT !.pc = "updateGrid", !.i = 0, !.j = 0, !.before = grid]
    /\ obs' = NoObs("enter", 0)
    /\ UNCHANGED <<grid, nextGrid, currentFrame>>
    /\ BufferFrame

\* The body of the loops written in place: the cell is stored into this.grid.
WriteCellInPlace(g, ng, same, n, i, j) ==
    [grid |-> [g EXCEPT ![i][j] = NextCell(g, n, i, j)], nextGrid |-> ng]

\* The body of updateGrid's loops for cell (i, j): the cell computed from
\* this.grid is stored into this.nextGrid; were the two one array (same), the
\* store would show in this.grid too.
WriteCell(g, ng, same, n, i, j) ==
    [grid |-> IF same THEN [g EXCEPT ![i][j] = NextCell(g, n, i, j)] ELSE g,
     nextGrid |-> IF same THEN [g EXCEPT ![i][j] = NextCell(g, n, i, j)]
                  ELSE [ng EXCEPT ![i][j] = NextCell(g, n, i, j)]]

\* One pass of the inner loop; j++ and, at the end of a column, i++.
StepCell ==
    /\ mem.pc = "updateGrid"
    /\ mem.i < gridSize
    /\ LET w == WriteCell(grid, nextGrid, mem.grid = mem.nextGrid, gridSize,
                          mem.i, mem.j)
       IN /\ grid' = w.grid
          /\ nextGrid' = w.nextGrid
    /\ mem' = IF mem.j + 1 < gridSize THEN [mem EXCEPT !.j = @ + 1]
              ELSE [mem EXCEPT !.i = @ + 1, !.j = 0]
    /\ obs' = NoObs("cell", 0)
    /\ UNCHANGED currentFrame
    /\ BufferFrame

\* The swap that ends updateGrid, and the currentFrame++ of its caller: the
\* two references are exchanged, no array is copied or created.
SwapBuffers ==
    /\ mem.pc = "updateGrid"
    /\ mem.i >= gridSize
    /\ grid' = nextGrid
    /\ nextGrid' = grid
    /\ mem' = [mem EXCEPT !.grid = mem.nextGrid, !.nextGrid = mem.grid,
                          !.pc = "idle"]
    /\ currentFrame' = currentFrame + 1
    /\ obs' = NoObs("swap", 0)
    /\ BufferFrame

NextBuffer ==
    \/ AllocateBuffers
    \/ EnterUpdateGrid
    \/ StepCell
    \/ SwapBuffers

SpecBuffer == InitBuffer /\ [][NextBuffer]_vars

SpecEnsure == InitGrid /\ [][EnsureGrid]_vars

(***************************************************************************)
(* SpecGlider: four generations from a 5-cell pattern placed anywhere on   *)
(* a GliderN x GliderN grid.                                               *)
(***************************************************************************)

\* The five cells the specification's scenario names.
ClaimedPattern == {<<1, 1>>, <<2, 2>>, <<1, 3>>, <<2, 3>>, <<3, 3>>}

\* The glider: the same cells but for the first row's, one column to the right.
GliderPattern == {<<2, 1>>, <<3, 2>>, <<1, 3>>, <<2, 3>>, <<3, 3>>}

PatternCells(name) == IF name = "claimed" THEN ClaimedPattern ELSE GliderPattern

\* S moved by (dx, dy) on the torus of size n.
Translate(S, dx, dy, n) == {<<(c[1] + dx) % n, (c[2] + dy) % n>> : c \in S}

InitGlider ==
    \E name \in {"claimed", "glider"}, dx \in 0..(GliderN - 1), dy \in 0..(GliderN - 1) :
        Seeded(GliderN,
               GridOf(GliderN, Translate(PatternCells(name), dx, dy, GliderN)),
               [pattern |-> name, dx |-> dx, dy |-> dy])


\* The body of the simulation loop: updateGrid(); currentFrame++.
StepGlider ==
    /\ currentFrame < 4
    /\ LET u == UpdateGrid(grid, nextGrid, gridSize)
       IN /\ grid' = u.grid
          /\ nextGrid' = u.nextGrid
    /\ currentFrame' = currentFrame + 1
    /\ obs' = NoObs("updateGrid", 0)
    /\ UNCHANGED <<gridSize, livingCells, isRunning, isTriangulating, triangles,
                   onComplete, sinceSimStart, sinceTriStart, rafQueue, timers,
                   canvas, run, called, lastCall, hist, ended, seedInfo, delivered, hero, view, mem, app>>

SpecGlider == InitGlider /\ [][StepGlider]_vars

\* The callbacks the browser runs: the frame callbacks and the hold timer.
Callbacks == {"update", "animate", "fade", "hold"}

(***************************************************************************)
(* C1.  The callback given to a runFromClick call is invoked exactly once  *)
(* over any later sequence of frame callbacks, timers, stop() and          *)
(* runFromClick calls: never a second time.                                *)
(***************************************************************************)
CallbackAtMostOnce == \A r \in Runs : called[r] <= 1

(***************************************************************************)
(* C2.  When stop() is called right after runFromClick, before any frame   *)
(* callback or timer has run, the run's callback has been invoked exactly  *)
(* once, and the canvas is clear and stays clear: no later step draws, the *)
(* already scheduled update frame included.                                *)
(***************************************************************************)
ImmediateStopCallsOnceAndStaysClear ==
    hist.stoppedAtOnce =>
        /\ called[run] = 1
        /\ ~isRunning
        /\ canvas = "clear"
        /\ ~obs.drew

\* The update frame scheduled by runFromClick has fired after the immediate stop.
ScheduledUpdateFiredAfterImmediateStop ==
    /\ hist.stoppedAtOnce
    /\ obs.op = "update"
    /\ obs.by = run

(***************************************************************************)
(* C3.  runFromClick during an active run is defined: the active run's     *)
(* callback is invoked by stop(), with the engine idle and the canvas      *)
(* clear, before the new callback is registered, before the new grid is    *)
(* seeded and before any frame of the new run is drawn.                    *)
(***************************************************************************)
SupersedeFinalizesFirst ==
    [][(isRunning /\ obs'.op = "runFromClick") =>
           /\ called'[run] = called[run] + 1
           /\ run \in ended'
           /\ lastCall' = [cb |-> run, via |-> "stop", isRunning |-> FALSE,
                           onComplete |-> 0, canvas |-> "clear", run |-> run,
                           seeded |-> 0, drew |-> FALSE]
           /\ run' = run + 1
           /\ onComplete' = run'
           /\ isRunning']_vars

\* A run that was revealing its mesh has just been superseded.
SupersededWhileRevealing ==
    /\ obs.op = "runFromClick"
    /\ run = 2
    /\ lastCall.cb = 1
    /\ lastCall.via = "stop"
    /\ called[1] = 1
    /\ \E k \in 1..Len(rafQueue) : rafQueue[k].fn = "animate" /\ rafQueue[k].by = 1

(***************************************************************************)
(* C4.  While the engine is stopped (from stop() until the next            *)
(* runFromClick), a pending update frame, animate frame, hold timer or     *)
(* fade frame that fires draws nothing, steps no grid, starts no later     *)
(* phase, schedules nothing and invokes no callback.                       *)
(***************************************************************************)
PendingCallbacksAreNoOpsWhenStopped ==
    [][(~isRunning /\ obs'.op \in Callbacks) =>
           /\ ~obs'.drew
           /\ obs'.stepped = 0
           /\ obs'.triangulated = 0
           /\ obs'.scheduled = 0
           /\ obs'.invoked = 0
           /\ hist' = [hist EXCEPT !.fired = TRUE]
           /\ UNCHANGED <<grid, nextGrid, livingCells, currentFrame, isRunning,
                          isTriangulating, triangles, onComplete, canvas, called,
                          lastCall, ended>>]_vars

\* The hold timer of a stopped run has fired.
HoldTimerFiredAfterStop ==
    /\ obs.op = "hold"
    /\ obs.by = run
    /\ ~isRunning
    /\ lastCall.via = "stop"
    /\ lastCall.cb = run
    /\ hist.hold > 0

(***************************************************************************)
(* C5.  After run A has been superseded by run B, no frame callback or     *)
(* hold timer scheduled by A steps B's grid, triggers triangulation,       *)
(* starts a fade-out, schedules a callback, sets the engine idle or        *)
(* invokes B's callback.                                                   *)
(***************************************************************************)
SupersededCallbacksDoNotDrive ==
    [][(obs'.op \in Callbacks /\ obs'.by # run) =>
           /\ obs'.stepped = 0
           /\ obs'.triangulated = 0
           /\ obs'.scheduled = 0
           /\ obs'.invoked = 0
           /\ hist'.fade = hist.fade
           /\ isRunning' = isRunning
           /\ UNCHANGED <<grid, called>>]_vars

(***************************************************************************)
(* C6.  The phases of a run occur strictly in order: one triangulation,    *)
(* after the run's last generation step; the hold timer set only after     *)
(* that triangulation's reveal; the fade-out only after the run's hold     *)
(* timer fired; the natural finish only by the run's own fade-out.         *)
(***************************************************************************)
PhasesInOrder ==
    /\ hist.tri <= 1
    /\ ~hist.stepAfterTri
    /\ hist.hold > 0 => hist.tri = 1
    /\ hist.hold <= 1
    /\ hist.fade > 0 => hist.holdFired > 0
    /\ hist.fade <= 1
    /\ hist.natural => (hist.fade = 1 /\ hist.naturalBorn = run)

(***************************************************************************)
(* C7.  Under fair delivery of frame callbacks and timers every run        *)
(* started by runFromClick eventually is idle with its callback invoked,   *)
(* whatever stop() and runFromClick calls occur in between.                *)
(***************************************************************************)
CallersNeverHang ==
    \A r \in Runs : (run = r) ~> (r \in ended /\ called[r] >= 1)

\* A run has finished naturally, at the end of its fade-out.
FinishedNaturally ==
    /\ hist.natural
    /\ ~isRunning
    /\ run \in ended
    /\ lastCall.via = "fadeOut"
    /\ lastCall.cb = run
    /\ called[run] = 1

(***************************************************************************)
(* C8.  updateGrid() produces exactly the toroidal Conway generation: a    *)
(* live cell stays alive iff it has 2 or 3 live neighbours, a dead cell    *)
(* becomes alive iff it has exactly 3, the 8 neighbours of (x, y) being    *)
(* ((x + dx) mod N, (y + dy) mod N).                                       *)
(***************************************************************************)
Directions == {d \in (-1..1) \X (-1..1) : d # <<0, 0>>}

LiveNeighbours(g, n, x, y) ==
    Cardinality({d \in Directions : g[(x + d[1]) % n][(y + d[2]) % n] = 1})

ConwayGeneration(g, n) ==
    [x \in 0..(n - 1) |-> [y \in 0..(n - 1) |->
        IF g[x][y] = 1
        THEN (IF LiveNeighbours(g, n, x, y) \in {2, 3} THEN 1 ELSE 0)
        ELSE (IF LiveNeighbours(g, n, x, y) = 3 THEN 1 ELSE 0)]]

UpdateGridIsToroidalConway ==
    [][obs'.op = "updateGrid" => grid' = ConwayGeneration(grid, gridSize)]_vars

\* A generation in which cell (0, 0) was born from three parents that are all
\* in the last column or the last row: only the wrap makes them adjacent.
UpdateGridWrapBirth ==
    /\ obs.op = "updateGrid"
    /\ grid[0][0] = 1
    /\ \A i \in 0..(gridSize - 2), j \in 0..(gridSize - 2) : nextGrid[i][j] = 0

(***************************************************************************)
(* C9.  On an 8 x 8 toroidal grid whose only live cells are (1,1), (2,2),  *)
(* (1,3), (2,3), (3,3), four updateGrid() calls leave exactly that pattern *)
(* translated by (1,1).                                                    *)
(***************************************************************************)
ClaimedPatternTranslates ==
    (seedInfo = [pattern |-> "claimed", dx |-> 0, dy |-> 0]
     /\ currentFrame = 4)
    => grid = GridOf(gridSize, Translate(ClaimedPattern, 1, 1, gridSize))

\* C9 as amended: the glider (2,1), (3,2), (1,3), (2,3), (3,3), placed anywhere on
\* the torus, is after four updateGrid() calls the same pattern translated by (1,1).
GliderTranslates ==
    (seedInfo.pattern = "glider" /\ currentFrame = 4)
    => grid = GridOf(gridSize,
                     Translate(GliderPattern, seedInfo.dx + 1, seedInfo.dy + 1, gridSize))

\* The glider has crossed the edge of the grid in both directions.
GliderCrossedTheEdge ==
    /\ seedInfo = [pattern |-> "glider", dx |-> GliderN - 3, dy |-> GliderN - 3]
    /\ currentFrame = 4
    /\ grid[0][1] = 1

(***************************************************************************)
(* C10.  For every grid with live count c < k and at least k cells,        *)
(* ensureMinimumCells(k) leaves exactly k live cells, and in general       *)
(* min(k, N * N).                                                          *)
(***************************************************************************)
LiveCells(g, n) == {c \in (0..(n - 1)) \X (0..(n - 1)) : g[c[1]][c[2]] = 1}

EnsureReachesMinimum ==
    (obs.op = "ensureMinimumCells" /\ obs.before < obs.k)
    => Cardinality(LiveCells(grid, gridSize)) = Min(obs.k, gridSize * gridSize)

\* A call that had to add cells to a grid that already had some.
EnsureAddedCells ==
    /\ obs.op = "ensureMinimumCells"
    /\ 0 < obs.before
    /\ obs.before < obs.k
    /\ obs.k < gridSize * gridSize
    /\ Cardinality(LiveCells(grid, gridSize)) = obs.k

(***************************************************************************)
(* C11.  ensureMinimumCells(k) never reduces the live count: every cell    *)
(* alive before the call is alive after it, only dead cells change, and    *)
(* when the live count is already >= k the grid is left unchanged.         *)
(***************************************************************************)
EnsureNeverReduces ==
    [][obs'.op = "ensureMinimumCells" =>
           /\ LiveCells(grid, gridSize) \subseteq LiveCells(grid', gridSize)
           /\ Cardinality(LiveCells(grid', gridSize)) >= obs'.before
           /\ obs'.before = Cardinality(LiveCells(grid, gridSize))
           /\ (obs'.before >= obs'.k => grid' = grid)
           /\ nextGrid' = nextGrid]_vars

\* A call with 0 < k <= live count < N * N: it had dead cells to change and
\* left them.
EnsureLeftGridAlone ==
    /\ obs.op = "ensureMinimumCells"
    /\ 0 < obs.k
    /\ obs.k <= obs.before
    /\ obs.before < gridSize * gridSize
    /\ Cardinality(LiveCells(grid, gridSize)) = obs.before

(***************************************************************************)
(* C12.  Early stop: once a generation step of a run leaves the live count *)
(* at or below the floor (minCells, 10 in the engine and 8 in the hero),   *)
(* no further generation step is executed in that run, and the run has     *)
(* gone on to the minimum-cell floor and the triangulation; no run         *)
(* executes more than maxFrames generation steps.                          *)
(***************************************************************************)
EarlyStopHalts ==
    /\ ~hist.stepAfterLow
    /\ hero.constructed =>
          /\ hist.steps <= HeroMaxFrames
          /\ hist.low => Len(livingCells) >= targetCells
    /\ ~hero.constructed =>
          /\ hist.steps <= maxFrames
          /\ hist.low => (currentFrame = maxFrames /\ hist.tri >= 1)
          /\ hist.low => Len(livingCells) >= MinimumBeforeTriangulation

\* A run of the engine whose second generation left at most minCells cells.
StoppedAfterSecondGeneration ==
    /\ ~hero.constructed
    /\ hist.low
    /\ hist.steps = 2
    /\ obs.op = "update"
    /\ obs.stepped > 0
    /\ obs.triangulated = 1
    /\ CountLivingCells(grid, gridSize) = MinimumBeforeTriangulation

\* C13: whenever the points are collected, the floor has been applied to the grid
\* first: the points are the living cells of the grid the floor left, and there
\* are at least 15 of them in the engine (which triangulates them in the same
\* call) and at least 12 in the hero, hence at least 3.
TriangulationNeverStarves ==
    /\ obs.triangulated > 0 => obs.collected > 0
    /\ obs.collected > 0 =>
          /\ Len(livingCells) >= 3
          /\ Len(livingCells) = CountLivingCells(grid, gridSize)
          /\ hero.constructed =>
                /\ livingCells = HeroCollectLivingCells(grid, gridSize)
                /\ Len(livingCells) >= targetCells
          /\ ~hero.constructed =>
                /\ livingCells = CollectLivingCells(grid, gridSize)
                /\ Len(livingCells) >= MinimumBeforeTriangulation

\* The hero ran all its generations on eleven cells and collected twelve points.
FloorFilledTheFormation ==
    /\ hero.constructed
    /\ obs.collected = 1
    /\ obs.stepped = HeroMaxFrames
    /\ ~hist.low
    /\ Len(livingCells) = targetCells

\* C14: on 0, 1 or 2 points triangulate() leaves an empty triangle list and
\* getEdgesFromPoints() returns an empty edge list, neither calling the Delaunay
\* construction; on 3 points or more each calls it once.
ShortInputsSkipDelaunay ==
    /\ obs.op = "triangulate" =>
          /\ Len(livingCells) < 3 => (triangles = <<>> /\ obs.delaunator = 0)
          /\ Len(livingCells) >= 3 => obs.delaunator = 1
    /\ obs.op = "getEdgesFromPoints" =>
          /\ Len(livingCells) < 3 => (hero.edges = <<>> /\ obs.delaunator = 0)
          /\ Len(livingCells) >= 3 => obs.delaunator = 1

\* getEdgesFromPoints() has returned for two points.
EdgesAskedOfTwoPoints ==
    /\ Len(livingCells) = 2
    /\ obs.op = "getEdgesFromPoints"
    /\ obs.delaunator = 0
    /\ hero.edges = <<>>
    /\ triangles = <<>>

\* Twice the area of the triangle of the points other than the k-th of four.
AreaWithout(points, k) ==
    LET rest == SelectSeq([j \in 1..4 |-> IF j = k THEN <<>> ELSE points[j]],
                          LAMBDA q : q # <<>>)
    IN Abs(Orient(rest[1], rest[2], rest[3]))

\* Four points in convex position: no three on a line and none inside the
\* triangle of the other three (whose area would be the sum of the other areas).
ConvexPosition(points) ==
    LET total == AreaWithout(points, 1) + AreaWithout(points, 2)
                 + AreaWithout(points, 3) + AreaWithout(points, 4)
    IN \A k \in 1..4 : AreaWithout(points, k) > 0 /\ 2 * AreaWithout(points, k) # total

TriangleArea(tri) == Abs(Orient(tri.points[1], tri.points[2], tri.points[3]))

\* C15: triangulate() builds exactly 1 triangle from 3 points that are not
\* collinear and exactly 2 from 4 points in convex position; the 2 triangles
\* cover the quadrilateral (their areas add up to its area, twice which is half
\* the sum of the areas of the four triples) and no triangle's circumcircle
\* strictly contains an input point.
TriangleCounts ==
    obs.op = "triangulate" =>
        /\ (Len(livingCells) = 3
            /\ Orient(livingCells[1], livingCells[2], livingCells[3]) # 0)
           => Len(triangles) = 1
        /\ (Len(livingCells) = 4 /\ ConvexPosition(livingCells)) =>
              /\ Len(triangles) = 2
              /\ 2 * (TriangleArea(triangles[1]) + TriangleArea(triangles[2]))
                 = AreaWithout(livingCells, 1) + AreaWithout(livingCells, 2)
                   + AreaWithout(livingCells, 3) + AreaWithout(livingCells, 4)
              /\ \A k \in 1..2 : \A j \in 1..4 :
                    ~InCircumcircle(triangles[k].points[1], triangles[k].points[2],
                                    triangles[k].points[3], livingCells[j])

\* triangulate() has built two triangles of area 50 each from the corners of the
\* square (0,0), (10,0), (0,10), (10,10), collected column by column.
SquareTriangulated ==
    /\ livingCells = << <<0, 0>>, <<0, 10>>, <<10, 0>>, <<10, 10>> >>
    /\ obs.op = "triangulate"
    /\ Len(triangles) = 2
    /\ TriangleArea(triangles[1]) = 100
    /\ TriangleArea(triangles[2]) = 100

\* The entries of matched that pair a current point with a target.
Paired(matched, c) == ~matched[c].fadeIn /\ ~matched[c].fadeOut

\* C16: matchPoints emits one entry per current point, in input order, before
\* any other entry, and no target is paired with two current points.
OneEntryPerCurrentPoint ==
    obs.op = "matchPoints" =>
        LET matched == hero.morphData
            n == Len(hero.currentPoints)
        IN /\ Len(matched) >= n
           /\ \A c \in 1..Len(matched) :
                 IF c <= n
                 THEN matched[c].from = hero.currentPoints[c] /\ ~matched[c].fadeIn
                 ELSE matched[c].fadeIn
           /\ \A a \in 1..n : \A b \in 1..n :
                 (a # b /\ Paired(matched, a) /\ Paired(matched, b))
                 => matched[a].toIndex # matched[b].toIndex

\* Two current points were paired although the second is nearest to the target
\* the first had claimed.
SecondChoicePaired ==
    /\ obs.op = "matchPoints"
    /\ Len(hero.currentPoints) = 2
    /\ Paired(hero.morphData, 1)
    /\ Paired(hero.morphData, 2)
    /\ NearestLoop(hero.currentPoints[2], hero.targetPoints, {}, 1, NoBest).idx
       = hero.morphData[1].toIndex

\* C17: every target is the `to` of exactly one entry of the result, a paired
\* entry or a fade-in entry from the centre; the result has one entry per
\* current point and one per unclaimed target; no entry fades in and out.
EveryTargetOnce ==
    obs.op = "matchPoints" =>
        LET matched == hero.morphData
            n == Len(hero.currentPoints)
            claimed == {matched[c].toIndex : c \in {d \in 1..n : Paired(matched, d)}}
        IN /\ \A t \in 1..Len(hero.targetPoints) :
                 /\ Cardinality({c \in 1..Len(matched) : matched[c].toIndex = t}) = 1
                 /\ \A c \in 1..Len(matched) :
                       matched[c].toIndex = t =>
                           /\ matched[c].to = hero.targetPoints[t]
                           /\ ~matched[c].fadeOut
                           /\ matched[c].fadeIn =>
                                 matched[c].from = Centre(hero.width, hero.width)
           /\ Len(matched) = n + (Len(hero.targetPoints) - Cardinality(claimed))
           /\ \A c \in 1..Len(matched) : ~(matched[c].fadeIn /\ matched[c].fadeOut)

\* One current point was paired, another fades out and a target fades in.
PairedFadedOutAndFadedIn ==
    /\ obs.op = "matchPoints"
    /\ \E a \in 1..Len(hero.morphData) : Paired(hero.morphData, a)
    /\ \E b \in 1..Len(hero.morphData) : hero.morphData[b].fadeOut
    /\ \E c \in 1..Len(hero.morphData) : hero.morphData[c].fadeIn

\* The targets claimed by the entries before the c-th.
ClaimedBefore(matched, c) ==
    {matched[b].toIndex : b \in {d \in 1..(c - 1) : Paired(matched, d)}}

\* C18: a current point is paired only with a target that was unclaimed when its
\* turn came, that no unclaimed target was nearer than, and whose distance is
\* strictly below 0.6 times the canvas width; otherwise its entry is a fade-out
\* to the centre and claims no target.
PairsOnlyNearestWithinReach ==
    obs.op = "matchPoints" =>
        LET matched == hero.morphData
            target == hero.targetPoints
        IN /\ \A c \in 1..Len(hero.currentPoints) :
                 LET cp == hero.currentPoints[c]
                     unclaimed == (1..Len(target)) \ ClaimedBefore(matched, c)
                     InReach(t) == 25 * Dist2(cp, target[t]) < 9 * hero.width * hero.width
                     Nearest(t) == \A u \in unclaimed :
                                       Dist2(cp, target[t]) <= Dist2(cp, target[u])
                 IN IF \E t \in unclaimed : Nearest(t) /\ InReach(t)
                    THEN /\ Paired(matched, c)
                         /\ matched[c].toIndex \in unclaimed
                         /\ Nearest(matched[c].toIndex)
                         /\ InReach(matched[c].toIndex)
                         /\ matched[c].to = target[matched[c].toIndex]
                    ELSE /\ matched[c].fadeOut
                         /\ ~matched[c].fadeIn
                         /\ matched[c].toIndex = 0
                         /\ matched[c].to = Centre(hero.width, hero.width)
           /\ hero.usedTargets =
                 ClaimedBefore(matched, Len(hero.currentPoints) + 1)

\* A current point fades out although an unclaimed target lies at exactly 0.6
\* times the canvas width from it, and no unclaimed target lies nearer.
NearestTargetJustOutOfReach ==
    /\ obs.op = "matchPoints"
    /\ hero.width > 0
    /\ \E c \in 1..Len(hero.currentPoints) :
          /\ hero.morphData[c].fadeOut
          /\ \E t \in (1..Len(hero.targetPoints)) \ ClaimedBefore(hero.morphData, c) :
                25 * Dist2(hero.currentPoints[c], hero.targetPoints[t])
                = 9 * hero.width * hero.width

\* The points of the list are pairwise distinct.
Distinct(points) ==
    \A a \in 1..Len(points) : \A b \in 1..Len(points) : a # b => points[a] # points[b]

\* C19: on a canvas of positive width, matchPoints(P, P) for pairwise distinct
\* points P has |P| entries, the i-th pairing P[i] with the i-th target, which
\* is P[i] itself, and no entry fades.
MatchingAListWithItself ==
    (/\ obs.op = "matchPoints"
     /\ hero.currentPoints = hero.targetPoints
     /\ Distinct(hero.currentPoints)
     /\ hero.width > 0)
    => hero.morphData =
          [i \in 1..Len(hero.currentPoints) |->
              [from |-> hero.currentPoints[i], to |-> hero.currentPoints[i],
               toIndex |-> i, fadeIn |-> FALSE, fadeOut |-> FALSE]]

\* Three distinct points have been matched with themselves on the canvas of
\* width 10, where the point (3,4) is within reach of both other points.
ThreePointsMatchedWithThemselves ==
    /\ obs.op = "matchPoints"
    /\ hero.currentPoints = hero.targetPoints
    /\ Distinct(hero.currentPoints)
    /\ Len(hero.currentPoints) = 3
    /\ hero.width = 10
    /\ Len(hero.morphData) = 3

\* Target t is unclaimed when the turn of the a-th current point comes, lies
\* within reach of it, and is the first of the unclaimed targets nearest to the
\* points cp.
FirstNearestUnclaimed(t, cp, a) ==
    LET target == hero.targetPoints
        unclaimed == (1..Len(target)) \ ClaimedBefore(hero.morphData, a)
    IN /\ t \in unclaimed
       /\ 25 * Dist2(cp, target[t]) < 9 * hero.width * hero.width
       /\ \A u \in unclaimed :
             \/ Dist2(cp, target[t]) < Dist2(cp, target[u])
             \/ Dist2(cp, target[t]) = Dist2(cp, target[u]) /\ t <= u

\* C20: when two current points are equally far from a target that is the nearest
\* unclaimed target of both at the turn of the earlier one, the earlier one in
\* input order is paired with it and the later one is not.
FirstInOrderWinsTie ==
    obs.op = "matchPoints" =>
        \A a \in 1..Len(hero.currentPoints) : \A b \in 1..Len(hero.currentPoints) :
            \A t \in 1..Len(hero.targetPoints) :
                (/\ a < b
                 /\ Dist2(hero.currentPoints[a], hero.targetPoints[t])
                    = Dist2(hero.currentPoints[b], hero.targetPoints[t])
                 /\ FirstNearestUnclaimed(t, hero.currentPoints[a], a)
                 /\ FirstNearestUnclaimed(t, hero.currentPoints[b], a))
                => /\ Paired(hero.morphData, a)
                   /\ hero.morphData[a].toIndex = t
                   /\ hero.morphData[b].toIndex # t

\* The points (0,0) and (6,0) competed for the only target, (3,4), at distance
\* 5 from both, on the canvas of width 10: the first is paired with it, the
\* second fades out.
TieWonByTheFirst ==
    /\ obs.op = "matchPoints"
    /\ hero.currentPoints = << <<0, 0>>, <<6, 0>> >>
    /\ hero.targetPoints = << <<3, 4>> >>
    /\ hero.width = 10
    /\ hero.morphData[1].toIndex = 1
    /\ hero.morphData[2].fadeOut

\* C21: after initializeFromPoint no cell farther from the origin cell than the
\* radius floor(gridSize / 2) is alive.
SeedingWithinRadius ==
    obs.op = "initializeFromPoint" =>
        \A i \in 0..(gridSize - 1) : \A j \in 0..(gridSize - 1) :
            grid[i][j] = 1 =>
                SeedDist2(seedInfo.dx, seedInfo.dy, i, j)
                <= Radius(gridSize) * Radius(gridSize)

\* C22: the hero has no terminal state.  The first formation leaves the timer of
\* the next cycle pending (3000 ms); a step that completes a morph sets the timer
\* of the next cycle (2500 ms); a hero that is not morphing always has such a
\* timer pending; and with frames and timers delivered every morph completes
\* and every formation short of the MaxFormations-th is followed by the next.
HeroNeverRests ==
    /\ hero.evolveTimers = <<FirstEvolveDelay>>
    /\ [][(hero.isMorphing /\ ~hero.isMorphing')
            => hero.evolveTimers' = <<NextEvolveDelay>>]_vars
    /\ [](~hero.isMorphing => hero.evolveTimers # <<>>)
    /\ (hero.isMorphing ~> ~hero.isMorphing)
    /\ \A k \in 1..(MaxFormations - 1) :
          (hero.formations = k) ~> (hero.formations = k + 1)

\* The third formation is being morphed into, after one completed morph.
ThirdFormationUnderWay ==
    /\ hero.constructed
    /\ hero.formations = 3
    /\ hero.morphs = 1
    /\ hero.isMorphing
    /\ hero.sinceMorphStart > 0

\* C23: a resize event recomputes the scale from the new size of the canvas and
\* the grid size, and leaves the phase flags, the generation counter, both
\* grids, the triangles and the points, the phase clocks, the registered
\* callback, the pending callbacks and every field of the hero as they were.
ResizeKeepsThePhase ==
    [][obs'.op = "resize" =>
          /\ view'.cellWidth = Scale(view'.width, gridSize)
          /\ view'.cellHeight = Scale(view'.height, gridSize)
          /\ UNCHANGED <<gridSize, grid, nextGrid, livingCells, currentFrame,
                         isRunning, isTriangulating, triangles, onComplete,
                         sinceSimStart, sinceTriStart, rafQueue, timers, run,
                         called, hero>>]_vars

\* The window was resized to 480 x 360 while the triangles were being revealed.
ResizedDuringReveal ==
    /\ obs.op = "resize"
    /\ isRunning
    /\ isTriangulating
    /\ triangles # <<>>
    /\ view.width = 480
    /\ view.cellWidth = [num |-> 480, den |-> 12]

\* C24: when stop() has returned, in whatever phase it was called, the list of
\* triangles and the list of collected living cells are both empty.
StopClearsGeometry ==
    obs.op = "stop" => (triangles = <<>> /\ livingCells = <<>>)

\* C25 as stated: the next generation is computed from the complete unmodified
\* grid, the buffers are exchanged only after all cells have been written, by
\* a swap of the two references, and grid and nextGrid are two distinct
\* buffers in every reachable state.
DoubleBufferedInEveryState ==
    /\ [](mem.grid # mem.nextGrid)
    /\ [](mem.pc = "updateGrid" => grid = mem.before)
    /\ [][(mem.grid # 0 /\ mem'.grid # mem.grid) =>
              /\ mem.i = gridSize
              /\ nextGrid = ConwayGeneration(mem.before, gridSize)
              /\ mem'.grid = mem.nextGrid /\ mem'.nextGrid = mem.grid
              /\ grid' = nextGrid /\ nextGrid' = grid]_vars

\* C25 amended: the same, with grid and nextGrid two distinct buffers in every
\* state from the first seeding on (both are null before it).
DoubleBufferedOnceSeeded ==
    /\ [](mem.grid = 0 <=> mem.nextGrid = 0)
    /\ [](mem.grid # 0 => mem.grid # mem.nextGrid)
    /\ [](mem.pc = "updateGrid" => grid = mem.before)
    /\ [][(mem.grid # 0 /\ mem'.grid # mem.grid) =>
              /\ mem.i = gridSize
              /\ nextGrid = ConwayGeneration(mem.before, gridSize)
              /\ mem'.grid = mem.nextGrid /\ mem'.nextGrid = mem.grid
              /\ grid' = nextGrid /\ nextGrid' = grid]_vars

\* The buffers have just been exchanged for the second time, after a
\* generation that changed the grid.
SecondExchangeDone ==
    /\ obs.op = "swap"
    /\ currentFrame = 2
    /\ mem.grid = 1 /\ mem.nextGrid = 2
    /\ grid # nextGrid
    /\ grid = ConwayGeneration(nextGrid, gridSize)

\* C26: after every update() call that passes its isRunning guard (from
\* runFromClick or from a frame callback) in a run whose early stop has not
\* triggered, the number of generations computed in the run, and currentFrame,
\* equal min(maxFrames, floor(elapsed / frameDelay)), however many callbacks
\* have been delivered.
GenerationsFollowTheClock ==
    [][((obs'.op = "runFromClick" \/ (obs'.op = "update" /\ isRunning))
            /\ ~hist'.low)
          => /\ hist'.steps = Min(maxFrames, sinceSimStart' \div frameDelay)
             /\ currentFrame' = hist'.steps]_vars

\* A frame callback has called update() 400 ms into a run that has not stopped
\* early: it computed five generations at once, which makes ten.
FiveGenerationsInOneCall ==
    /\ obs.op = "update"
    /\ obs.stepped = 5
    /\ hist.steps = 10
    /\ sinceSimStart = 400
    /\ ~hist.low
    /\ isRunning

\* C27: after triangulate(), for any two triangles a and b with
\* a.distFromCenter <= b.distFromCenter, a.delay <= b.delay; every delay lies
\* in [0, 500] and the farthest triangle has 500; and in every state of the
\* reveal, so at every animate frame, a.progress >= b.progress.
RadialReveal ==
    \A a \in 1..Len(triangles) :
        /\ triangles[a].delay >= 0
        /\ triangles[a].delay <= MaxDelay
        /\ (\A b \in 1..Len(triangles) :
               triangles[b].distFromCenter <= triangles[a].distFromCenter)
              => triangles[a].delay = MaxDelay
        /\ \A b \in 1..Len(triangles) :
              triangles[a].distFromCenter <= triangles[b].distFromCenter
                  => /\ triangles[a].delay <= triangles[b].delay
                     /\ triangles[a].progress >= triangles[b].progress

\* An animate frame of a reveal of three triangles at three distances: the
\* nearest is complete, the middle one is ahead of the farthest, which has
\* begun.
NearestCompleteFarthestBegun ==
    /\ obs.op = "animate"
    /\ Len(triangles) = 3
    /\ triangles[1].distFromCenter < triangles[2].distFromCenter
    /\ triangles[2].distFromCenter < triangles[3].distFromCenter
    /\ triangles[1].progress = Full
    /\ triangles[2].progress < Full
    /\ triangles[3].progress < triangles[2].progress
    /\ triangles[3].progress > 0

\* C28: every triangle's progress stays in [0, 1] and never decreases during a
\* run's reveal, and the reveal ends (the single hold timer of the run is
\* started and no further animate frame is requested) exactly at the first
\* animate frame in which every triangle has progress 1, never while some
\* triangle has progress below 1.
RevealEndsAtFullProgress ==
    /\ [](\A k \in 1..Len(triangles) :
             triangles[k].progress >= 0 /\ triangles[k].progress <= Full)
    /\ [][(run' = run /\ isRunning /\ isTriangulating /\ isTriangulating')
             => /\ Len(triangles') = Len(triangles)
                /\ \A k \in 1..Len(triangles) :
                      triangles'[k].progress >= triangles[k].progress]_vars
    /\ [][(obs'.op = "animate" /\ isRunning)
             => LET complete == \A k \in 1..Len(triangles') :
                                    triangles'[k].progress = Full
                    held == Len(timers') = Len(timers) + 1
                    again == Len(rafQueue') = Len(rafQueue)
                IN /\ held <=> complete
                   /\ again <=> ~complete
                   /\ held => hist'.hold = 1]_vars

\* The sides of the triangles of a flat index list, as sets of two indices.
SidesOf(tris) ==
    UNION {{ {tris[3 * t + 1], tris[3 * t + 2]}, {tris[3 * t + 2], tris[3 * t + 3]},
             {tris[3 * t + 3], tris[3 * t + 1]} } : t \in 0..((Len(tris) \div 3) - 1)}

\* C29: for every triangle index list, getEdgesFromPoints returns each
\* undirected pair of vertices that is a side of some triangle exactly once,
\* whatever the orientation of the triangles that share it, and no pair that
\* is not a side.
EachSideOnce ==
    obs.op = "getEdgesFromPoints" =>
        /\ \A side \in SidesOf(hero.triangles) :
              Cardinality({k \in 1..Len(hero.edges) :
                              {hero.edges[k].p1, hero.edges[k].p2}
                                  = {livingCells[a + 1] : a \in side}}) = 1
        /\ \A k \in 1..Len(hero.edges) :
              /\ hero.edges[k].index = k - 1
              /\ \E side \in SidesOf(hero.triangles) :
                    {hero.edges[k].p1, hero.edges[k].p2}
                        = {livingCells[a + 1] : a \in side}

\* Two triangles that share the side 1-12 in the same orientation, next to the
\* side 11-2: five edges.
SharedSideSameOrientation ==
    /\ obs.op = "getEdgesFromPoints"
    /\ hero.triangles = <<1, 12, 2, 1, 12, 11>>
    /\ Len(hero.edges) = 5

\* C30: a draw call changes no state other than the hue (which it advances by
\* one increment modulo 360, within [0, 360)): it does not change the phase,
\* replace the point sets or schedule a timer.  The hue is not a field of the
\* model; the formula states that a frame of the hero's draw loop leaves the
\* morph flag, both point sets, the pending timers and the grids as they were.
DrawChangesOnlyTheHue ==
    [][obs'.op = "heroDraw" =>
          /\ hero'.isMorphing = hero.isMorphing
          /\ hero'.currentPoints = hero.currentPoints
          /\ hero'.targetPoints = hero.targetPoints
          /\ hero'.evolveTimers = hero.evolveTimers
          /\ UNCHANGED <<grid, nextGrid, livingCells>>]_vars

\* g is an n x n array of zeros and ones.
IsGrid(g, n) ==
    /\ DOMAIN g = 0..(n - 1)
    /\ \A i \in 0..(n - 1) :
          /\ DOMAIN g[i] = 0..(n - 1)
          /\ \A j \in 0..(n - 1) : g[i][j] \in {0, 1}

\* C31: in every state after the first seeding grid and nextGrid are both
\* gridSize x gridSize with every cell 0 or 1, and gridSize never changes
\* after construction, whatever seeds, steps, ensureMinimumCells calls,
\* resizes, stops and restarts have happened.
GridShapeKept ==
    /\ [](grid # NullGrid => (IsGrid(grid, gridSize) /\ IsGrid(nextGrid, gridSize)))
    /\ [][gridSize' = gridSize]_vars

\* The second run of an engine, after the first was ended: generations were
\* computed, the floor was applied before the triangulation, and the window
\* has just been resized.
SecondRunResizedAfterTriangulation ==
    /\ ~hero.constructed
    /\ run = 2
    /\ 1 \in ended
    /\ hist.steps > 0
    /\ hist.tri > 0
    /\ obs.op = "resize"
    /\ view.width = 480
    /\ IsGrid(grid, EngineGridSize)

\* C32: the draw frame at which a morph has reached progress 1 makes the
\* current points exactly the target points computed for that morph and
\* switches morphing off, a morph ends in no other way, and the next
\* matchPoints call (the start of the next morph) is given that set as its
\* current argument.
MorphCompletionInstallsTarget ==
    /\ [][(obs'.op = "heroDraw" /\ hero.isMorphing
                /\ hero.sinceMorphStart >= morphDuration)
             => ~hero'.isMorphing]_vars
    /\ [][(hero.isMorphing /\ ~hero'.isMorphing)
             => /\ obs'.op = "heroDraw"
                /\ hero.sinceMorphStart >= morphDuration
                /\ hero'.currentPoints = hero.targetPoints
                /\ hero'.targetPoints = hero.targetPoints]_vars
    /\ [][(hero.isMorphing /\ hero'.isMorphing)
             => hero'.targetPoints = hero.targetPoints]_vars
    /\ [][(~hero.isMorphing /\ hero'.isMorphing)
             => /\ hero.morphs > 0 => hero.currentPoints = hero.targetPoints
                /\ hero'.currentPoints = hero.currentPoints
                /\ hero'.morphData =
                       MatchPoints(hero.currentPoints, hero'.targetPoints,
                                   HeroCanvas, HeroCanvas).matched]_vars

\* The second morph has just been set up from the points the first morph
\* installed, towards a formation with another number of points.
SecondMorphFromInstalledPoints ==
    /\ obs.op = "evolveToNextFormation"
    /\ hero.isMorphing
    /\ hero.morphs = 1
    /\ hero.sinceMorphStart = 0
    /\ hero.currentPoints # <<>>
    /\ Len(hero.targetPoints) # Len(hero.currentPoints)

\* C33: from the end of the engine's construction on, and so whenever
\* runFromClick seeds the grid or the living cells are collected, cellWidth and
\* cellHeight are the canvas width and height divided by gridSize, no resize
\* event having occurred.
ScaleDefinedFromConstruction ==
    /\ view.cellWidth = Scale(view.width, gridSize)
    /\ view.cellHeight = Scale(view.height, gridSize)

\* C34: in the hero at most one draw-loop callback chain exists however many
\* formations have been produced, at most one next-evolution timer is pending
\* at any time, none is pending while a morph is in progress, and
\* evolveToNextFormation never runs while a morph is in progress.
OneDrawLoopOneTimer ==
    /\ [](hero.constructed =>
             /\ hero.drawLoops <= 1
             /\ Len(hero.evolveTimers) <= 1
             /\ hero.isMorphing => hero.evolveTimers = <<>>)
    /\ [][obs'.op = "evolveToNextFormation" => ~hero.isMorphing]_vars

\* The third formation is in place after two morphs: one draw loop, and the
\* one timer of the next evolution pending.
ThirdFormationInPlace ==
    /\ hero.constructed
    /\ hero.formations = 3
    /\ hero.morphs = 2
    /\ ~hero.isMorphing
    /\ hero.drawLoops = 1
    /\ Len(hero.evolveTimers) = 1

(***************************************************************************)
(* SpecApp: CodefarmApp on top of the engine.  The only caller of the      *)
(* engine is navigateToSection, reached from the navigation links; the     *)
(* page never calls stop().                                                *)
(***************************************************************************)

\* navigateToSection without its isNavigating guard.
NavigateToSectionUnguarded(e, seed) ==
    RunFromClick([e EXCEPT !.app.isNavigating = TRUE], seed)

\* navigateToSection(targetId, clickX, clickY); the click handler of a link
\* returns on the same condition before it reaches this call.
NavigateToSection(e, seed) ==
    IF e.app.isNavigating
    THEN {e}
    ELSE RunFromClick([e EXCEPT !.app.isNavigating = TRUE], seed)

\* A navigation link is clicked.
NavigationRequest ==
    /\ run < MaxRuns \/ app.isNavigating
    /\ UNCHANGED delivered
    /\ \E seed \in SeedGrids :
          \E e \in NavigateToSection([Eng EXCEPT !.obs = NoObs("navigate", 0)], seed) :
              Commit(e)

NextApp ==
    \/ NavigationRequest
    \/ FrameUpdate
    \/ FrameAnimate
    \/ FrameFade
    \/ HoldTimer
    \/ Tick

SpecApp == Init /\ [][NextApp]_vars

(***************************************************************************)
(* SpecRestart: the page starts one run and may call stop(); every          *)
(* completion callback calls runFromClick at once.                         *)
(***************************************************************************)

InitRestart == EngineConstructed(EngineGridSize, [NoApp EXCEPT !.restarts = TRUE])

\* The page starts the first run; every later run is started by a callback.
StartFirstRun ==
    /\ run = 0
    /\ CallRunFromClick

NextRestart ==
    \/ StartFirstRun
    \/ CallStop
    \/ FrameUpdate
    \/ FrameAnimate
    \/ FrameFade
    \/ HoldTimer
    \/ Tick

SpecRestart == InitRestart /\ [][NextRestart]_vars

\* What the engine holds, without the page's and the model's own records.
engineVars ==
    <<gridSize, grid, nextGrid, livingCells, currentFrame, isRunning,
      isTriangulating, triangles, onComplete, sinceSimStart, sinceTriStart,
      rafQueue, timers, canvas, run, called, view>>

\* C35: CodefarmApp calls runFromClick only while the engine is idle:
\* whenever the engine is running isNavigating is set; a run is started only
\* by a navigation request that found isNavigating false and the engine idle,
\* and it sets isNavigating; a request that finds isNavigating set leaves the
\* engine as it was; and isNavigating falls only in a step that invoked the
\* completion callback.
NavigationLock ==
    /\ [](isRunning => app.isNavigating)
    /\ [][ /\ run' > run =>
                /\ obs'.op = "navigate"
                /\ ~isRunning /\ ~app.isNavigating
                /\ app'.isNavigating
           /\ (obs'.op = "navigate" /\ app.isNavigating) =>
                /\ UNCHANGED engineVars
                /\ app'.isNavigating
           /\ (app.isNavigating /\ ~app'.isNavigating) => obs'.invoked > 0 ]_vars

\* A request was ignored during the second run, which was started after the
\* first run's callback had reset the lock.
RequestIgnoredDuringSecondRun ==
    /\ obs.op = "navigate" /\ obs.seeded = 0
    /\ isRunning /\ app.isNavigating
    /\ run = 2 /\ called[1] = 1

\* C36: every invocation of a completion callback, by the natural end of the
\* fade-out or by stop(), finds isRunning false and the canvas cleared; a
\* callback that calls runFromClick at once never makes that call stop the
\* engine, the new run is under way when the handler returns, and no
\* callback that restarted is invoked a second time.
CallbackFindsEngineIdle ==
    /\ lastCall.cb # 0 => ~lastCall.isRunning /\ lastCall.canvas = "clear"
    /\ app.restartStops = 0
    /\ \A r \in app.restarted : called[r] = 1
    /\ (obs.invoked > 0 /\ lastCall.cb \in app.restarted)
          => isRunning /\ run = lastCall.run + 1 /\ onComplete = run

\* Both ways have restarted a run: the first run was stopped and its callback
\* started the second, or the first run faded out and its callback started
\* the second.
RestartedFromCallback ==
    /\ obs.invoked > 0 /\ lastCall.cb = 1 /\ 1 \in app.restarted
    /\ lastCall.via = "fadeOut"
    /\ isRunning /\ run = 2

====
